---- MODULE Spec2Model ----
(***************************************************************************)
(* A model of turbo_apply: the HTML job-data extraction cascade            *)
(* (scraper.py) and the folder-naming engine (processor.py).               *)
(*                                                                         *)
(* Text is modelled as a sequence of pieces.  A piece is an atom: a word   *)
(* or phrase, or one of the white-space pieces " " and "\n".  Markup is    *)
(* modelled as the sequence of events html.parser.HTMLParser reports       *)
(* (start tag with attributes, end tag, text).                             *)
(***************************************************************************)
EXTENDS Integers, Sequences, FiniteSets, TLC

VARIABLES
    extractor,    \* the fields of one _IndeedHTMLExtractor object
    hist,         \* the events fed to it so far, each with the counters after it
    job_title,    \* make_folder_name: the title argument
    job_company,  \* make_folder_name: the company argument
    platform,     \* os.name of the platform
    folder_name,  \* make_folder_name: the slug returned, None before the call
    title_part,   \* make_folder_name: title_part, None before the call
    company_part, \* make_folder_name: company_part, None before the call
    combined,     \* make_folder_name: the slug before it is trimmed
    url,          \* scrape_job: the url argument
    page,         \* the blocks of markup the url serves
    html_text,    \* scrape_job: html
    job,          \* scrape_job: job
    error,        \* scrape_job: the error raised, None when none
    pc,           \* scrape_job: the statement to run next
    tokens,       \* the JSON values of a page, in document order
    located,      \* the posting the locator found, NoneNode when none
    searched,     \* the locator has run
    posting_doc,  \* _normalize_job: the document of the job_posting argument
    normalized,   \* _normalize_job: the record returned, NoJob before the call
    target,       \* fetch_html: what the url argument names
    f_pc,         \* fetch_html: the statement to run next
    f_i,          \* fetch_html: i, the index of the header profile
    f_trace,      \* fetch_html: the sleeps and HTTP attempts made so far
    last_error,   \* fetch_html: last_error, the status of the HTTPError held
    f_result,     \* fetch_html: the text returned or the error raised
    app,          \* the fields and widgets of the TurboApplyApp object
    after_queue,  \* the callbacks scheduled with after(0, ...), oldest first
    workers,      \* the background threads started so far, each with its place
    runs,         \* the number of times the Run button was pressed
    disk,         \* the job folder: whether it exists, and its files
    templates,    \* the template files of the language in use
    fo_last,      \* file_ops: the last call, its arguments and its result
    fo_ops,       \* file_ops: the number of calls made so far
    job_data,     \* process_job: job_data, source_url and french
    pj_pc,        \* process_job: the statement to run next
    pj_locals,    \* process_job: its locals, and the files it has written
    pj_result,    \* process_job: "returned" or the error raised, None before
    tex,          \* _compile_resume: what tex_arg names and which variant runs
    aux,          \* _compile_resume: the auxiliary files in the directory
    c_pc,         \* _compile_resume: the statement to run next
    c_trace,      \* _compile_resume: the clean-ups and the compiler run so far
    c_result      \* _compile_resume: the path returned or the error raised

exVars == <<extractor, hist>>
nmVars == <<job_title, job_company, platform, folder_name, title_part, company_part,
           combined>>
scVars == <<url, page, html_text, job, error, pc>>
loVars == <<tokens, located, searched>>

noVars == <<posting_doc, normalized>>

\* the variables of the parts that were added to the model later
feVars == <<target, f_pc, f_i, f_trace, last_error, f_result>>
guVars == <<app, after_queue, workers, runs>>
fiVars == <<disk, templates, fo_last, fo_ops>>
pjVars == <<job_data, pj_pc, pj_locals, pj_result>>
coVars == <<tex, aux, c_pc, c_trace, c_result>>
lateVars == <<fiVars, pjVars, coVars>>
restVars == <<noVars, feVars, guVars, lateVars>>

vars == <<exVars, nmVars, scVars, loVars, restVars>>

\* the variables each part of the model leaves alone
notEx == <<nmVars, scVars, loVars, restVars>>
notNm == <<exVars, scVars, loVars, restVars>>
notSc == <<exVars, nmVars, loVars, restVars>>
notLo == <<exVars, nmVars, scVars, restVars>>
notNo == <<exVars, nmVars, scVars, loVars, feVars, guVars, lateVars>>
notFe == <<exVars, nmVars, scVars, loVars, noVars, guVars, lateVars>>
notGu == <<exVars, nmVars, scVars, loVars, noVars, feVars, lateVars>>
earlyVars == <<exVars, nmVars, scVars, loVars, noVars, feVars, guVars>>
notFi == <<earlyVars, pjVars, coVars>>
notPj == <<earlyVars, fo_last, fo_ops, coVars>>
notCo == <<earlyVars, fiVars, pjVars>>

(***************************************************************************)
(* Bounds of the model.                                                    *)
(***************************************************************************)
MaxFeed == 5      \* events fed to the extractor under SpecExtract
MaxNested == 7    \* events fed to the extractor under SpecNested
MaxTitleChunks == 2    \* chunks a title is made of under SpecName
MaxCompanyChunks == 2  \* chunks a company is made of under SpecName
MaxBlocks == 2         \* blocks of markup on a page under SpecScrape
MaxTokens == 5         \* JSON values on a page under SpecLocate
MaxTitleWords == 3     \* words of a title under SpecWords
MaxNameWords == 7      \* words of a company under SpecWords
MaxOrgItems == 2       \* items of a hiringOrganization list under SpecNormalize
MaxRuns == 2           \* presses of the Run button under SpecGui
MaxOps == 4            \* calls of file_ops under SpecFiles

(***************************************************************************)
(* Generic helpers.                                                        *)
(***************************************************************************)
None == "<None>"      \* Python's None
Absent == "<absent>"  \* a key that is not in a dict

RECURSIVE Flatten(_)
Flatten(ss) == IF ss = <<>> THEN <<>> ELSE Head(ss) \o Flatten(Tail(ss))

(***************************************************************************)
(* Text (scraper.py).                                                      *)
(***************************************************************************)
IsSpace(p) == p \in {" ", "\n"}

\* str.lower() on the atoms of the model
Lower(p) ==
    CASE p = "CAPTCHA" -> "captcha"
      [] p = "Verify you are a human" -> "verify you are a human"
      [] p = "Sign in to view" -> "sign in to view"
      [] p = "\"isLoggedIn\":false" -> "\"isloggedin\":false"
      [] p = "TRUE" -> "true"
      [] p = "Application/LD+JSON" -> "application/ld+json"
      [] p = "jobsearch-CompanyName" -> "jobsearch-companyname"
      [] p = "inlineHeader-companyName" -> "inlineheader-companyname"
      [] p = "jobDescriptionText" -> "jobdescriptiontext"
      [] p = "jobsearch-jobDescriptionText" -> "jobsearch-jobdescriptiontext"
      [] p = "https://www.LinkedIn.com/jobs/view/2" -> "https://www.linkedin.com/jobs/view/2"
      [] OTHER -> p

\* needle in hay, for the attribute values of the model
InStr(needle, hay) ==
    \/ needle = hay
    \/ <<needle, hay>> \in {
           <<"companyname", "jobsearch-companyname">>,
           <<"companyname", "inlineheader-companyname">>,
           <<"company", "inlineheader-companyname">>,
           <<"name", "inlineheader-companyname">>,
           <<"company", "company-name">>,
           <<"name", "company-name">>,
           <<"jobDescriptionText", "jobsearch-jobDescriptionText">>,
           <<"jobdescriptiontext", "jobsearch-jobdescriptiontext">>,
           <<"company", "jobsearch-companyname">>,
           <<"company", "topcard__org-name-link company">>,
           <<"topcard__org-name-link", "topcard__org-name-link company">>,
           <<"show-more-less-html__markup", "show-more-less-html__markup relative">>,
           <<"linkedin.com", "https://www.linkedin.com/jobs/view/1">>,
           <<"linkedin.com", "https://www.linkedin.com/jobs/view/2">> }

RECURSIVE JoinWith(_, _)
\* sep.join(parts), parts a sequence of texts
JoinWith(parts, sep) ==
    IF parts = <<>> THEN <<>>
    ELSE IF Len(parts) = 1 THEN Head(parts)
    ELSE Head(parts) \o sep \o JoinWith(Tail(parts), sep)

\* str.strip()
Strip(t) ==
    LET kept == {i \in 1..Len(t) : ~IsSpace(t[i])}
    IN  IF kept = {} THEN <<>>
        ELSE SubSeq(t, CHOOSE i \in kept : \A j \in kept : i <= j,
                       CHOOSE i \in kept : \A j \in kept : j <= i)

\* the indices of s, ascending
Indices(s) == [i \in 1..Len(s) |-> i]

\* the maximal runs of t between the pieces in seps, empty runs included
SplitOn(t, seps) ==
    LET at == SelectSeq(Indices(t), LAMBDA i : t[i] \in seps)
        cuts == <<0>> \o at \o <<Len(t) + 1>>
    IN  [k \in 1..(Len(cuts) - 1) |-> SubSeq(t, cuts[k] + 1, cuts[k + 1] - 1)]

NonEmptyOnes(ss) == SelectSeq(ss, LAMBDA s : s # <<>>)

\* str.split(): the runs of non-white-space
Words(t) == NonEmptyOnes(SplitOn(t, {" ", "\n"}))

\* str.splitlines(): no empty last line after a final line break
SplitLines(t) ==
    LET ls == SplitOn(t, {"\n"})
    IN IF ls[Len(ls)] = <<>> THEN SubSeq(ls, 1, Len(ls) - 1) ELSE ls

StripEach(ls) == [i \in 1..Len(ls) |-> Strip(ls[i])]

\* _clean_text: " ".join(value.split()).strip()
_clean_text(value) == Strip(JoinWith(Words(value), <<" ">>))

\* _clean_lines: the stripped non-empty lines, joined by line breaks
_clean_lines(value) == JoinWith(NonEmptyOnes(StripEach(SplitLines(value))), <<"\n">>)

(***************************************************************************)
(* Attribute heuristics (scraper.py).  attrs is the dict of one start      *)
(* tag: a record with Absent for a key that is not there.                  *)
(***************************************************************************)
NoAttrs == [id |-> Absent, testid |-> Absent, class |-> Absent,
            dcn |-> Absent, dcn2 |-> Absent, type |-> Absent,
            property |-> Absent, name |-> Absent, content |-> Absent]

\* attrs.get(key) or ""
GetOr(v) == IF v = Absent THEN "" ELSE v

_looks_like_name(value) ==
    LET cleaned == value   \* the attribute values of the model carry no outer blanks
    IN  /\ cleaned # ""
        /\ Lower(cleaned) \notin {"true", "false"}
        /\ cleaned \notin {"123"}      \* any(char.isalpha())

_is_company_tag(attrs) ==
    \/ attrs.dcn # Absent \/ attrs.dcn2 # Absent
    \/ LET testid == Lower(GetOr(attrs.testid))
       IN  \/ testid \in {"company-name", "companyname", "company-name-link"}
           \/ InStr("company", testid) /\ InStr("name", testid)
    \/ LET class_lower == Lower(GetOr(attrs.class))
       IN  InStr("companyname", class_lower) \/ InStr("company-name", class_lower)

_is_description_tag(attrs) ==
    \/ attrs.id = "jobDescriptionText"
    \/ GetOr(attrs.testid) \in {"jobDescriptionText", "job-description"}
    \/ LET class_attr == GetOr(attrs.class)
       IN  \/ InStr("jobDescriptionText", class_attr)
           \/ InStr("jobsearch-jobDescriptionText", class_attr)

(***************************************************************************)
(* _IndeedHTMLExtractor (scraper.py).                                      *)
(***************************************************************************)
StartEv(tag, attrs) == [kind |-> "start", tag |-> tag, attrs |-> attrs, data |-> <<>>]
EndEv(tag) == [kind |-> "end", tag |-> tag, attrs |-> NoAttrs, data |-> <<>>]
DataEv(text) == [kind |-> "data", tag |-> "", attrs |-> NoAttrs, data |-> text]

\* __init__
ExtractorInit ==
    [title_depth |-> 0, company_depth |-> 0, desc_depth |-> 0,
     title_parts |-> <<>>, company_parts |-> <<>>, description_parts |-> <<>>]

\* Bump with the nested start tags forgotten
BumpNever(d) == d

\* a counter that is active goes up by one on every start tag
Bump(d) == IF d # 0 THEN d + 1 ELSE d

\* Drop without the test that the counter is active
DropAlways(d) == d - 1

\* a counter that is active goes down by one on every end tag
Drop(d) == IF d # 0 THEN d - 1 ELSE d

handle_starttag(self, tag, attrs) ==
    LET td1 == Bump(self.title_depth)
        cd1 == Bump(self.company_depth)
        dd1 == Bump(self.desc_depth)
        td2 == IF td1 = 0 /\ tag = "h1" THEN 1 ELSE td1
        cd2 == IF cd1 = 0 /\ _is_company_tag(attrs) THEN 1 ELSE cd1
        dd2 == IF dd1 = 0 /\ _is_description_tag(attrs) THEN 1 ELSE dd1
        dp  == IF dd2 # 0 /\ tag \in {"br", "p", "li"}
               THEN Append(self.description_parts, <<"\n">>)
               ELSE self.description_parts
        company_attr == IF GetOr(attrs.dcn) # "" THEN GetOr(attrs.dcn)
                        ELSE GetOr(attrs.dcn2)
        cp  == IF company_attr # "" /\ _looks_like_name(company_attr)
               THEN Append(self.company_parts, <<company_attr>>)
               ELSE self.company_parts
    IN [self EXCEPT !.title_depth = td2, !.company_depth = cd2, !.desc_depth = dd2,
                    !.description_parts = dp, !.company_parts = cp]

handle_endtag(self, tag) ==
    LET dp == IF self.desc_depth # 0 /\ tag \in {"p", "li", "ul", "ol"}
              THEN Append(self.description_parts, <<"\n">>)
              ELSE self.description_parts
    IN [self EXCEPT !.description_parts = dp,
                    !.title_depth = Drop(self.title_depth),
                    !.company_depth = Drop(self.company_depth),
                    !.desc_depth = Drop(self.desc_depth)]

handle_data(self, data) ==
    [self EXCEPT
        !.title_parts = IF self.title_depth # 0 THEN Append(@, data) ELSE @,
        !.company_parts = IF self.company_depth # 0 THEN Append(@, data) ELSE @,
        !.description_parts = IF self.desc_depth # 0 THEN Append(@, data) ELSE @]

\* HTMLParser.feed, one event
FeedEvent(self, ev) ==
    CASE ev.kind = "start" -> handle_starttag(self, ev.tag, ev.attrs)
      [] ev.kind = "end" -> handle_endtag(self, ev.tag)
      [] OTHER -> handle_data(self, ev.data)

RECURSIVE FeedAll(_, _)
\* HTMLParser.feed, a whole document
FeedAll(self, evs) ==
    IF evs = <<>> THEN self ELSE FeedAll(FeedEvent(self, Head(evs)), Tail(evs))

get_title(self) == _clean_text(JoinWith(self.title_parts, <<" ">>))
get_company(self) == _clean_text(JoinWith(self.company_parts, <<" ">>))
get_description(self) == _clean_lines(Flatten(self.description_parts))

(***************************************************************************)
(* The naming engine (processor.py).  Here a string is the sequence of     *)
(* its characters.                                                         *)
(***************************************************************************)
UpperAlpha == <<"A", "B", "C", "D", "E", "F", "G", "H", "I", "J", "K", "L", "M", "N", "O", "P", "Q", "R", "S", "T", "U", "V", "W", "X", "Y", "Z">>
LowerAlpha == <<"a", "b", "c", "d", "e", "f", "g", "h", "i", "j", "k", "l", "m", "n", "o", "p", "q", "r", "s", "t", "u", "v", "w", "x", "y", "z">>
Digits == {"0", "1", "2", "3", "4", "5", "6", "7", "8", "9"}

Range(f) == {f[i] : i \in DOMAIN f}

IsUpperCh(c) == c \in Range(UpperAlpha)
IsAlphaCh(c) == c \in Range(UpperAlpha) \cup Range(LowerAlpha)
IsDigitCh(c) == c \in Digits
IsAlnumCh(c) == IsAlphaCh(c) \/ IsDigitCh(c)

LowerCh(c) ==
    IF IsUpperCh(c) THEN LowerAlpha[CHOOSE i \in 1..26 : UpperAlpha[i] = c] ELSE c

UpperCh(c) ==
    IF c \in Range(LowerAlpha) THEN UpperAlpha[CHOOSE i \in 1..26 : LowerAlpha[i] = c]
    ELSE c

\* str.lower() and str.upper()
LowerStr(w) == [i \in 1..Len(w) |-> LowerCh(w[i])]
UpperStr(w) == [i \in 1..Len(w) |-> UpperCh(w[i])]

\* w[:n]
Prefix(w, n) == SubSeq(w, 1, IF Len(w) < n THEN Len(w) ELSE n)

StartsWith(w, pre) == Len(w) >= Len(pre) /\ SubSeq(w, 1, Len(pre)) = pre

\* the positions of w that hold a character outside chars
KeptAt(w, chars) == {i \in 1..Len(w) : w[i] \notin chars}

Least(S) == CHOOSE i \in S : \A j \in S : i <= j
Greatest(S) == CHOOSE i \in S : \A j \in S : j <= i

\* str.strip(chars)
StripChars(w, chars) ==
    IF KeptAt(w, chars) = {} THEN <<>>
    ELSE SubSeq(w, Least(KeptAt(w, chars)), Greatest(KeptAt(w, chars)))

\* str.rstrip(chars)
RStripChars(w, chars) ==
    IF KeptAt(w, chars) = {} THEN <<>>
    ELSE SubSeq(w, 1, Greatest(KeptAt(w, chars)))

\* re.sub of every maximal run of characters of the set run by the one
\* character by
CollapseRuns(w, run, by) ==
    LET last == SelectSeq(Indices(w),
                    LAMBDA i : ~(w[i] \in run /\ i < Len(w) /\ w[i + 1] \in run))
    IN  [k \in 1..Len(last) |-> IF w[last[k]] \in run THEN by ELSE w[last[k]]]

\* the characters of text that [^A-Za-z0-9] matches
NonAlnum(text) == {text[i] : i \in 1..Len(text)} \ {c \in Range(text) : IsAlnumCh(c)}

_WINDOWS_RESERVED_NAMES ==
    { <<"C", "O", "N">>, <<"P", "R", "N">>, <<"A", "U", "X">>, <<"N", "U", "L">>,
      <<"C", "O", "M", "1">>, <<"C", "O", "M", "2">>, <<"C", "O", "M", "3">>, <<"C", "O", "M", "4">>, <<"C", "O", "M", "5">>,
      <<"C", "O", "M", "6">>, <<"C", "O", "M", "7">>, <<"C", "O", "M", "8">>, <<"C", "O", "M", "9">>,
      <<"L", "P", "T", "1">>, <<"L", "P", "T", "2">>, <<"L", "P", "T", "3">>, <<"L", "P", "T", "4">>, <<"L", "P", "T", "5">>,
      <<"L", "P", "T", "6">>, <<"L", "P", "T", "7">>, <<"L", "P", "T", "8">>, <<"L", "P", "T", "9">> }

NoiseWords ==
    { <<"w", "e", "b", "k", "i", "t">>, <<"m", "s">>, <<"i", "n", "l", "i", "n", "e">>, <<"b", "l", "o", "c", "k">>, <<"f", "l", "e", "x">>, <<"d", "i", "s", "p", "l", "a", "y">>,
      <<"m", "a", "r", "g", "i", "n">>, <<"p", "a", "d", "d", "i", "n", "g">>, <<"s", "i", "z", "e">>, <<"c", "o", "l", "o", "r">>, <<"i", "n", "h", "e", "r", "i", "t">>,
      <<"v", "e", "r", "t", "i", "c", "a", "l">>, <<"a", "l", "i", "g", "n">>, <<"s", "t", "a", "r", "t">>, <<"e", "n", "d">>, <<"a", "u", "t", "o">>,
      <<"r", "e", "m">>, <<"e", "m">>, <<"p", "x">> }

TitleMaxLen == 4     \* _abbreviate_title, max_len
CompanyMaxWords == 6 \* _filter_company_words, max_words
FallbackWords == 4   \* _company_slug, the raw tokens kept when none survives
NoiseLen == 24       \* _is_noise_word, the longest word that is not noise
MixedLen == 4        \* _is_noise_word, the longest word that may mix letters and digits
SlugMaxLen == 80     \* _trim_slug, max_len

JobPostingSlug == <<"J", "o", "b", "-", "P", "o", "s", "t", "i", "n", "g">>

_split_words(text) ==
    LET cleaned == CollapseRuns(text, NonAlnum(text), " ")
    IN  NonEmptyOnes(SplitOn(StripChars(cleaned, {" "}), {" "}))

\* _abbreviate_title with one character too many kept of a long word
AbbreviateTitleLong(title) ==
    LET words == _split_words(title)
    IN  JoinWith([i \in 1..Len(words) |->
                     IF Len(words[i]) <= TitleMaxLen THEN words[i]
                     ELSE Prefix(words[i], TitleMaxLen + 1)], <<"-">>)

_abbreviate_title(title) ==
    LET words == _split_words(title)
    IN  JoinWith([i \in 1..Len(words) |->
                     IF Len(words[i]) <= TitleMaxLen THEN words[i]
                     ELSE Prefix(words[i], TitleMaxLen)], <<"-">>)

_is_noise_word(word) ==
    LET lower == LowerStr(word)
    IN  \/ lower \in { <<"t", "r", "u", "e">>, <<"f", "a", "l", "s", "e">> }
        \/ StartsWith(lower, <<"c", "s", "s">>)
        \/ lower \in NoiseWords
        \/ Len(word) > NoiseLen
        \/ /\ Len(word) > MixedLen
           /\ \E i \in 1..Len(word) : IsDigitCh(word[i])
           /\ \E i \in 1..Len(word) : IsAlphaCh(word[i])

RECURSIVE FilterLoopNoBreak(_, _)
\* _filter_company_words with every noise word skipped, none ending the loop
FilterLoopNoBreak(words, filtered) ==
    IF words = <<>> THEN filtered
    ELSE IF _is_noise_word(Head(words))
         THEN FilterLoopNoBreak(Tail(words), filtered)
    ELSE LET more == Append(filtered, Head(words))
         IN  IF Len(more) >= CompanyMaxWords THEN more
             ELSE FilterLoopNoBreak(Tail(words), more)

RECURSIVE FilterLoop(_, _)
\* the loop of _filter_company_words over the words that are left
FilterLoop(words, filtered) ==
    IF words = <<>> THEN filtered
    ELSE IF _is_noise_word(Head(words))
         THEN IF filtered # <<>> THEN filtered
              ELSE FilterLoop(Tail(words), filtered)
    ELSE LET more == Append(filtered, Head(words))
         IN  IF Len(more) >= CompanyMaxWords THEN more
             ELSE FilterLoop(Tail(words), more)

_filter_company_words(words) == FilterLoop(words, <<>>)

_company_slug(company) ==
    LET words == _filter_company_words(_split_words(company))
        kept  == IF words = <<>> THEN Prefix(_split_words(company), FallbackWords)
                 ELSE words
    IN  JoinWith(kept, <<"-">>)

RECURSIVE TrimLoop(_, _)
\* the loop of _trim_slug over the parts that are left
TrimLoop(parts, trimmed) ==
    IF parts = <<>> THEN trimmed
    ELSE IF trimmed = <<>> THEN TrimLoop(Tail(parts), <<Head(parts)>>)
    ELSE LET candidate == JoinWith(Append(trimmed, Head(parts)), <<"-">>)
         IN  IF Len(candidate) > SlugMaxLen THEN trimmed
             ELSE TrimLoop(Tail(parts), Append(trimmed, Head(parts)))

_trim_slug(slug) ==
    LET cleaned == StripChars(CollapseRuns(slug, {"-"}, "-"), {"-"})
    IN  IF Len(cleaned) <= SlugMaxLen THEN cleaned
        ELSE LET parts == SplitOn(cleaned, {"-"})
                 result == StripChars(JoinWith(TrimLoop(parts, <<>>), <<"-">>), {"-"})
             IN  IF result # <<>> THEN result
                 ELSE RStripChars(Prefix(cleaned, SlugMaxLen), {"-"})

\* _normalize_slug_for_platform with the base compared as it is written
NormalizeSlugAsWritten(slug, os_name) ==
    LET cleaned == StripChars(slug, {" ", "."})
    IN  IF cleaned = <<>> THEN JobPostingSlug
        ELSE LET base == Head(SplitOn(cleaned, {"."}))
                 named == IF os_name = "nt" /\ base \in _WINDOWS_RESERVED_NAMES
                          THEN StripChars(cleaned \o <<"-", "j", "o", "b">>, {" ", "."})
                          ELSE cleaned
             IN  IF named # <<>> THEN named ELSE JobPostingSlug

_normalize_slug_for_platform(slug, os_name) ==
    LET cleaned == StripChars(slug, {" ", "."})
    IN  IF cleaned = <<>> THEN JobPostingSlug
        ELSE LET base == UpperStr(Head(SplitOn(cleaned, {"."})))
                 named == IF os_name = "nt" /\ base \in _WINDOWS_RESERVED_NAMES
                          THEN StripChars(cleaned \o <<"-", "j", "o", "b">>, {" ", "."})
                          ELSE cleaned
             IN  IF named # <<>> THEN named ELSE JobPostingSlug

\* the parts joined the other way round
CombinePartsCompanyFirst(title_slug, company_slug) ==
    IF title_slug # <<>> /\ company_slug # <<>>
    THEN company_slug \o <<"-">> \o title_slug
    ELSE IF company_slug # <<>> THEN company_slug
    ELSE IF title_slug # <<>> THEN title_slug
    ELSE JobPostingSlug

\* make_folder_name: the argument of the first _trim_slug
CombineParts(title_slug, company_slug) ==
    IF title_slug # <<>> /\ company_slug # <<>>
    THEN title_slug \o <<"-">> \o company_slug
    ELSE IF title_slug # <<>> THEN title_slug
    ELSE IF company_slug # <<>> THEN company_slug
    ELSE JobPostingSlug

\* make_folder_name without the fallback name and the platform pass
MakeFolderNameNoFallback(title, company, os_name) ==
    LET title_slug == _abbreviate_title(title)
        company_slug == _company_slug(company)
    IN  _trim_slug(IF title_slug # <<>> /\ company_slug # <<>>
                   THEN title_slug \o <<"-">> \o company_slug
                   ELSE title_slug \o company_slug)

make_folder_name(title, company, os_name) ==
    LET slug == _trim_slug(CombineParts(_abbreviate_title(title), _company_slug(company)))
    IN  _trim_slug(_normalize_slug_for_platform(slug, os_name))

(***************************************************************************)
(* Embedded JSON (scraper.py).  A JSON document is the sequence of its     *)
(* values in document order, each with its nesting depth d and, for a      *)
(* member of a map, its key.  A parsed value is a record: k is "map",      *)
(* "list" or "str" ("none" for no value), v the text of a string, items    *)
(* the members in order, at the place of the value in the document.        *)
(***************************************************************************)
NoneNode == [k |-> "none", v |-> <<>>, items |-> <<>>, at |-> 0]

Tok(d, key, k, v) == [d |-> d, key |-> key, k |-> k, v |-> v]

RECURSIVE Build(_, _)
\* json.loads: the value that starts at the i-th place of the document
Build(toks, i) ==
    LET kids == SelectSeq(Indices(toks), LAMBDA j :
                    /\ j > i
                    /\ toks[j].d = toks[i].d + 1
                    /\ \A n \in (i + 1)..(j - 1) : toks[n].d > toks[i].d)
    IN  [k |-> toks[i].k, v |-> toks[i].v, at |-> i,
         items |-> [n \in 1..Len(kids) |->
                       [key |-> toks[kids[n]].key, val |-> Build(toks, kids[n])]]]

\* dict.get(key): None for a missing key and for a value that is no dict
Get(data, key) ==
    LET hits == SelectSeq(data.items, LAMBDA it : it.key = key)
    IN  IF data.k = "map" /\ hits # <<>> THEN hits[Len(hits)].val ELSE NoneNode

\* value or "", for a value that is a string or None
StrOr(data) == IF data.k = "str" THEN data.v ELSE <<>>

_is_job_posting(data) ==
    /\ data.k = "map"
    /\ LET job_type == Get(data, "@type")
       IN  IF job_type.k = "list"
           THEN \E n \in 1..Len(job_type.items) :
                    /\ job_type.items[n].val.k = "str"
                    /\ job_type.items[n].val.v = <<"JobPosting">>
           ELSE job_type.k = "str" /\ job_type.v = <<"JobPosting">>

RECURSIVE FindChildrenFirst(_)
\* _find_job_posting with the members searched before the map itself
FindChildrenFirst(data) ==
    LET RECURSIVE Loop(_)
        Loop(n) ==
            IF n > Len(data.items) THEN NoneNode
            ELSE LET found == FindChildrenFirst(data.items[n].val)
                 IN  IF found.k # "none" THEN found ELSE Loop(n + 1)
        inner == IF data.k \in {"map", "list"} THEN Loop(1) ELSE NoneNode
    IN  IF inner.k # "none" THEN inner
        ELSE IF _is_job_posting(data) THEN data
        ELSE NoneNode

RECURSIVE _find_job_posting(_)
_find_job_posting(data) ==
    LET RECURSIVE Loop(_)
        Loop(n) ==
            IF n > Len(data.items) THEN NoneNode
            ELSE LET found == _find_job_posting(data.items[n].val)
                 IN  IF found.k # "none" THEN found ELSE Loop(n + 1)
    IN  IF data.k = "map" /\ _is_job_posting(data) THEN data
        ELSE IF data.k \in {"map", "list"} THEN Loop(1)
        ELSE NoneNode

(***************************************************************************)
(* The job record and the parsers of the cascade (scraper.py).  html is    *)
(* the event sequence of the fetched markup.                               *)
(***************************************************************************)
NoJob == [none |-> TRUE, title |-> <<>>, company |-> <<>>, description |-> <<>>]

JobRecord(title, company, description) ==
    [none |-> FALSE, title |-> title, company |-> company,
     description |-> description]

\* the event a piece of a string that holds markup stands for
MarkupEvent(piece) ==
    CASE piece = "<p>" -> StartEv("p", NoAttrs)
      [] piece = "</p>" -> EndEv("p")
      [] piece = "<br>" -> StartEv("br", NoAttrs)
      [] piece = "<ul>" -> StartEv("ul", NoAttrs)
      [] piece = "</ul>" -> EndEv("ul")
      [] piece = "<li>" -> StartEv("li", NoAttrs)
      [] piece = "</li>" -> EndEv("li")
      [] OTHER -> DataEv(<<piece>>)

\* _TextExtractor: what one event adds to parts
TextPart(ev) ==
    CASE ev.kind = "start" /\ ev.tag \in {"br", "p", "li"} -> <<"\n">>
      [] ev.kind = "end" /\ ev.tag \in {"p", "li", "ul", "ol"} -> <<"\n">>
      [] ev.kind = "data" -> ev.data
      [] OTHER -> <<>>

\* _TextExtractor: feed and get_text
TextOf(evs) == _clean_lines(Flatten([i \in 1..Len(evs) |-> TextPart(evs[i])]))

_strip_html(value) == TextOf([i \in 1..Len(value) |-> MarkupEvent(value[i])])

\* _normalize_job with the name field preferred to the title field
NormalizeJobNameFirst(job_posting) ==
    LET title == IF StrOr(Get(job_posting, "name")) # <<>>
                 THEN StrOr(Get(job_posting, "name"))
                 ELSE StrOr(Get(job_posting, "title"))
        org == Get(job_posting, "hiringOrganization")
        named == SelectSeq(org.items, LAMBDA it :
                     it.val.k = "map" /\ StrOr(Get(it.val, "name")) # <<>>)
        company == IF org.k = "map" THEN StrOr(Get(org, "name"))
                   ELSE IF org.k = "list" /\ named # <<>>
                        THEN StrOr(Get(named[1].val, "name"))
                   ELSE <<>>
        description_html == StrOr(Get(job_posting, "description"))
    IN  JobRecord(Strip(title), Strip(company), Strip(_strip_html(description_html)))

_normalize_job(job_posting) ==
    LET title == IF StrOr(Get(job_posting, "title")) # <<>>
                 THEN StrOr(Get(job_posting, "title"))
                 ELSE StrOr(Get(job_posting, "name"))
        org == Get(job_posting, "hiringOrganization")
        named == SelectSeq(org.items, LAMBDA it :
                     it.val.k = "map" /\ StrOr(Get(it.val, "name")) # <<>>)
        company == IF org.k = "map" THEN StrOr(Get(org, "name"))
                   ELSE IF org.k = "list" /\ named # <<>>
                        THEN StrOr(Get(named[1].val, "name"))
                   ELSE <<>>
        description_html == StrOr(Get(job_posting, "description"))
    IN  JobRecord(Strip(title), Strip(company), Strip(_strip_html(description_html)))

\* the JSON texts of the model, by name
JsonDocs(name) ==
    CASE name = "json:posting" ->
             << Tok(0, "", "map", <<>>),
                Tok(1, "@type", "str", <<"JobPosting">>),
                Tok(1, "title", "str", <<"X">>),
                Tok(1, "hiringOrganization", "map", <<>>),
                Tok(2, "name", "str", <<"Y">>),
                Tok(1, "description", "str", <<"<p>", "Z", "</p>">>) >>
      [] name = "json:bare" ->
             << Tok(0, "", "map", <<>>),
                Tok(1, "@type", "str", <<"JobPosting">>) >>
      [] name = "json:graph" ->
             << Tok(0, "", "map", <<>>),
                Tok(1, "@context", "str", <<"https://schema.org">>),
                Tok(1, "@graph", "list", <<>>),
                Tok(2, "", "map", <<>>),
                Tok(3, "@type", "str", <<"Organization">>),
                Tok(3, "name", "str", <<"O">>),
                Tok(2, "", "map", <<>>),
                Tok(3, "@type", "list", <<>>),
                Tok(4, "", "str", <<"Thing">>),
                Tok(4, "", "str", <<"JobPosting">>),
                Tok(3, "name", "str", <<"G">>),
                Tok(3, "hiringOrganization", "list", <<>>),
                Tok(4, "", "map", <<>>),
                Tok(5, "name", "str", <<"H">>) >>
      [] OTHER -> <<>>

\* json.loads succeeds on content
IsJson(content) == Len(content) = 1 /\ JsonDocs(content[1]) # <<>>

RECURSIVE _ScriptCollector(_, _)
\* _ScriptCollector: feed; c holds scripts, _in_script, _script_type and _buf
_ScriptCollector(evs, c) ==
    IF evs = <<>> THEN c
    ELSE LET ev == Head(evs)
             next ==
                 CASE ev.kind = "start" /\ ev.tag = "script" ->
                          [c EXCEPT !.in_script = TRUE, !.buf = <<>>,
                                    !.script_type = IF ev.attrs.type = Absent THEN None
                                                    ELSE ev.attrs.type]
                   [] ev.kind = "data" /\ c.in_script ->
                          [c EXCEPT !.buf = Append(@, ev.data)]
                   [] ev.kind = "end" /\ ev.tag = "script" /\ c.in_script ->
                          [c EXCEPT !.scripts = Append(@, [script_type |-> c.script_type,
                                                           content |-> Strip(Flatten(c.buf))]),
                                    !.in_script = FALSE, !.script_type = None,
                                    !.buf = <<>>]
                   [] OTHER -> c
         IN  _ScriptCollector(Tail(evs), next)

RECURSIVE JsonLdLoop(_, _)

\* except json.JSONDecodeError: stop reading scripts
OnDecodeErrorStop(rest, payloads) == payloads

\* except json.JSONDecodeError: continue
OnDecodeError(rest, payloads) == JsonLdLoop(rest, payloads)

\* the loop of _extract_json_ld over the scripts that are left
JsonLdLoop(scripts, payloads) ==
    IF scripts = <<>> THEN payloads
    ELSE LET script_type == Head(scripts).script_type
             content == Head(scripts).content
         IN  IF content = <<>> THEN JsonLdLoop(Tail(scripts), payloads)
             ELSE IF script_type \notin {None, ""}
                     /\ Lower(script_type) # "application/ld+json"
                  THEN JsonLdLoop(Tail(scripts), payloads)
             ELSE IF IsJson(content)
                  THEN JsonLdLoop(Tail(scripts),
                                  Append(payloads, Build(JsonDocs(content[1]), 1)))
             ELSE OnDecodeError(Tail(scripts), payloads)

_extract_json_ld(html) ==
    JsonLdLoop(_ScriptCollector(html, [scripts |-> <<>>, in_script |-> FALSE,
                                       script_type |-> None, buf |-> <<>>]).scripts,
               <<>>)

\* the loop of parse_indeed_job: the first posting found in a payload
FirstPosting(payloads) ==
    LET hits == SelectSeq(payloads, LAMBDA p : _find_job_posting(p).k # "none")
    IN  IF hits = <<>> THEN NoneNode ELSE _find_job_posting(hits[1])

parse_indeed_job(html) ==
    LET job_posting == FirstPosting(_extract_json_ld(html))
    IN  IF job_posting.k # "none" THEN _normalize_job(job_posting) ELSE NoJob

\* _MetaExtractor: meta.get(key) or "", the value of the last meta tag that
\* sets the key
MetaGet(html, key) ==
    LET hits == SelectSeq(html, LAMBDA ev :
                    /\ ev.kind = "start" /\ ev.tag = "meta"
                    /\ key = (IF GetOr(ev.attrs.property) # "" THEN ev.attrs.property
                              ELSE GetOr(ev.attrs.name))
                    /\ GetOr(ev.attrs.content) # "")
    IN  IF hits = <<>> THEN "" ELSE hits[Len(hits)].attrs.content

\* meta.get(first) or meta.get(second) or "", as a text
MetaText(html, first, second) ==
    LET value == IF MetaGet(html, first) # "" THEN MetaGet(html, first)
                 ELSE MetaGet(html, second)
    IN  IF value = "" THEN <<>> ELSE <<value>>

parse_linkedin_job(html) ==
    LET og_title == MetaGet(html, "og:title")
        \* re.match(r"^(.+?)\s+hiring\s+(.+?)\s+in\s+.+", og_title)
        hiring == og_title = "Acme hiring Engineer in Paris | LinkedIn"
        \* re.sub(r"\s*\|\s*LinkedIn\s*$", "", og_title).strip()
        title == IF hiring THEN <<"Engineer">>
                 ELSE IF og_title = "Engineer | LinkedIn" THEN <<"Engineer">>
                 ELSE IF og_title = "" THEN <<>>
                 ELSE Strip(<<og_title>>)
        \* show-more-less-html__markup[^>]*>(.*?)</div>
        opens == SelectSeq(Indices(html), LAMBDA i :
                     /\ html[i].kind = "start"
                     /\ InStr("show-more-less-html__markup",
                              Lower(GetOr(html[i].attrs.class)))
                     /\ \E j \in (i + 1)..Len(html) : html[j] = EndEv("div"))
        close == CHOOSE j \in (opens[1] + 1)..Len(html) :
                     /\ html[j] = EndEv("div")
                     /\ \A n \in (opens[1] + 1)..(j - 1) : html[n] # EndEv("div")
        description == IF opens # <<>>
                       THEN TextOf(SubSeq(html, opens[1] + 1, close - 1))
                       ELSE MetaText(html, "og:description", "description")
        \* topcard__org-name-link[^>]*>([^<]+)</a>
        links == SelectSeq(Indices(html), LAMBDA i :
                     /\ html[i].kind = "start"
                     /\ InStr("topcard__org-name-link", Lower(GetOr(html[i].attrs.class)))
                     /\ i + 2 <= Len(html)
                     /\ html[i + 1].kind = "data" /\ html[i + 1].data # <<>>
                     /\ html[i + 2] = EndEv("a"))
        \* class="[^"]*company[^"]*"[^>]*>([^<]+)<
        classed == SelectSeq(Indices(html), LAMBDA i :
                       /\ html[i].kind = "start"
                       /\ InStr("company", Lower(GetOr(html[i].attrs.class)))
                       /\ i + 2 <= Len(html)
                       /\ html[i + 1].kind = "data" /\ html[i + 1].data # <<>>
                       /\ html[i + 2].kind # "data")
        company == IF hiring THEN <<"Acme">>
                   ELSE IF links # <<>> THEN _clean_text(html[links[1] + 1].data)
                   ELSE IF classed # <<>> THEN _clean_text(html[classed[1] + 1].data)
                   ELSE <<>>
    IN  IF title # <<>> \/ company # <<>> \/ description # <<>>
        THEN JobRecord(Strip(title), Strip(company), Strip(_clean_lines(description)))
        ELSE NoJob

parse_indeed_html(html) ==
    LET extractor_ == FeedAll(ExtractorInit, html)
        title == IF get_title(extractor_) # <<>> THEN get_title(extractor_)
                 ELSE _clean_text(MetaText(html, "og:title", "twitter:title"))
        company == get_company(extractor_)
        description == IF get_description(extractor_) # <<>>
                       THEN get_description(extractor_)
                       ELSE _clean_lines(MetaText(html, "og:description", "description"))
    IN  IF title # <<>> \/ company # <<>> \/ description # <<>>
        THEN JobRecord(Strip(title), Strip(company), Strip(description))
        ELSE NoJob

\* html.lower(), as the set of the lower-cased pieces of its text
LowerHtml(html) ==
    UNION { {Lower(html[i].data[n]) : n \in 1..Len(html[i].data)} : i \in 1..Len(html) }

_is_linkedin_auth_wall(html) ==
    \E ind \in { "sign in to view", "join now to see", "authwall", "sign in or join",
                 "login-form", "\"isLoggedIn\":false" } :
        ind \in LowerHtml(html)

\* scrape_job: "linkedin.com" in url.lower()
IsLinkedin(u) == InStr("linkedin.com", Lower(u))

\* scrape_job: the LinkedIn parser overrides the record of the JSON-LD stage
TryLinkedinAlways(job_, is_linkedin, html) ==
    IF is_linkedin /\ ~parse_linkedin_job(html).none THEN parse_linkedin_job(html)
    ELSE job_

\* scrape_job: if not job and is_linkedin: job = parse_linkedin_job(html)
TryLinkedin(job_, is_linkedin, html) ==
    IF job_.none /\ is_linkedin THEN parse_linkedin_job(html) ELSE job_

\* scrape_job: if not job: job = parse_indeed_html(html)
TryGeneric(job_, html) ==
    IF job_.none THEN parse_indeed_html(html) ELSE job_

\* the diagnosis with the test for the blocking phrases made on html, not on
\* html.lower()
DiagnoseCaseSensitive(html, is_linkedin) ==
    IF \E i \in 1..Len(html) : \E n \in 1..Len(html[i].data) :
           html[i].data[n] \in {"captcha", "verify you are a human"}
    THEN "blocked"
    ELSE IF is_linkedin /\ _is_linkedin_auth_wall(html) THEN "auth"
    ELSE "nodata"

\* scrape_job: the error raised when no stage yields a record
Diagnose(html, is_linkedin) ==
    IF "captcha" \in LowerHtml(html) \/ "verify you are a human" \in LowerHtml(html)
    THEN "blocked"
    ELSE IF is_linkedin /\ _is_linkedin_auth_wall(html) THEN "auth"
    ELSE "nodata"

(***************************************************************************)
(* The state of each part of the model before it has run.                  *)
(***************************************************************************)
ExIdle ==
    /\ extractor = ExtractorInit
    /\ hist = <<>>

NmIdle ==
    /\ job_title = <<>>
    /\ job_company = <<>>
    /\ platform = "posix"
    /\ folder_name = None
    /\ title_part = None
    /\ company_part = None
    /\ combined = None

ScIdle ==
    /\ url = ""
    /\ page = <<>>
    /\ html_text = <<>>
    /\ job = NoJob
    /\ error = None
    /\ pc = "fetch"

LoIdle ==
    /\ tokens = <<>>
    /\ located = NoneNode
    /\ searched = FALSE

NoIdle ==
    /\ posting_doc = <<>>
    /\ normalized = NoJob

FeIdle ==
    /\ target = [local |-> FALSE, site |-> "other"]
    /\ f_pc = "start"
    /\ f_i = 0
    /\ f_trace = <<>>
    /\ last_error = None
    /\ f_result = None

GuIdle ==
    /\ app = [run_btn |-> "normal", open_folder_btn |-> "disabled",
              last_folder |-> None, status |-> "Ready", log |-> <<>>]
    /\ after_queue = <<>>
    /\ workers = <<>>
    /\ runs = 0

\* the names a file of the job folder may have; job.txt stands for
\* f"{folder_name}.txt" of a folder that is not named prompt or prompt-cover
FileNames == {"job.txt", "prompt.txt", "prompt-cover.txt", "resume-template.tex"}

\* a path at which there is no file
NoFile == [there |-> FALSE, lines |-> <<>>]

\* a file and the lines of its text
HoldsFile(lines) == [there |-> TRUE, lines |-> lines]

\* no call of file_ops made yet
NoCall ==
    [op |-> "none", name |-> "", description |-> <<>>, source_url |-> "",
     prompt_text |-> <<>>, result |-> None]

FiIdle ==
    /\ disk = [exists |-> FALSE, files |-> [n \in FileNames |-> NoFile]]
    /\ templates = [main |-> NoFile, cover |-> NoFile, resume |-> NoFile]
    /\ fo_last = NoCall
    /\ fo_ops = 0

PjIdle ==
    /\ job_data = [title |-> <<>>, company |-> <<>>, description |-> <<>>,
                   source_url |-> "", french |-> FALSE]
    /\ pj_pc = "start"
    /\ pj_locals = [title |-> <<>>, company |-> <<>>, description |-> <<>>,
                    folder_name |-> <<>>, written |-> {}]
    /\ pj_result = None

\* _compile_resume has neither returned nor raised
NoOutcome == [kind |-> "none", output |-> ""]

CoIdle ==
    /\ tex = [suffix |-> <<".", "t", "e", "x">>, is_file |-> TRUE, variant |-> "cli",
              toolchain |-> "found", stuck |-> {}]
    /\ aux = {}
    /\ c_pc = "start"
    /\ c_trace = <<>>
    /\ c_result = NoOutcome

LateIdle == FiIdle /\ PjIdle /\ CoIdle

RestIdle == NoIdle /\ FeIdle /\ GuIdle /\ LateIdle

(***************************************************************************)
(* The extractor fed one event at a time.                                  *)
(***************************************************************************)
DescAttrs == [NoAttrs EXCEPT !.id = "jobDescriptionText"]
CompanyAttrs == [NoAttrs EXCEPT !.class = "jobsearch-CompanyName"]
DataCompanyAttrs == [NoAttrs EXCEPT !.dcn = "Acme"]

\* the start tags, end tags and texts of the documents fed under SpecExtract
ExtractEvents ==
    { StartEv("h1", NoAttrs), StartEv("div", NoAttrs), StartEv("br", NoAttrs),
      StartEv("p", NoAttrs), StartEv("div", DescAttrs), StartEv("div", CompanyAttrs),
      StartEv("div", DataCompanyAttrs),
      EndEv("h1"), EndEv("div"), EndEv("p"),
      DataEv(<<"text">>) }

\* the events of a description region with nested unrelated elements
NestedEvents ==
    { StartEv("div", DescAttrs), StartEv("div", NoAttrs), StartEv("span", NoAttrs),
      EndEv("span"), EndEv("div"), DataEv(<<"text">>) }

Snapshot(ev, self) ==
    [ev |-> ev, title_depth |-> self.title_depth, company_depth |-> self.company_depth,
     desc_depth |-> self.desc_depth, title_parts |-> self.title_parts,
     company_parts |-> self.company_parts, description_parts |-> self.description_parts]

ExInit == ExIdle /\ NmIdle /\ ScIdle /\ LoIdle /\ RestIdle

Feed(ev) ==
    /\ extractor' = FeedEvent(extractor, ev)
    /\ hist' = Append(hist, Snapshot(ev, extractor'))

FeedStart(evs, max) ==
    /\ Len(hist) < max
    /\ \E ev \in evs : ev.kind = "start" /\ Feed(ev)

FeedEnd(evs, max) ==
    /\ Len(hist) < max
    /\ \E ev \in evs : ev.kind = "end" /\ Feed(ev)

FeedData(evs, max) ==
    /\ Len(hist) < max
    /\ \E ev \in evs : ev.kind = "data" /\ Feed(ev)

ExtractNext ==
    \/ FeedStart(ExtractEvents, MaxFeed) /\ UNCHANGED notEx
    \/ FeedEnd(ExtractEvents, MaxFeed) /\ UNCHANGED notEx
    \/ FeedData(ExtractEvents, MaxFeed) /\ UNCHANGED notEx

NestedNext ==
    \/ FeedStart(NestedEvents, MaxNested) /\ UNCHANGED notEx
    \/ FeedEnd(NestedEvents, MaxNested) /\ UNCHANGED notEx
    \/ FeedData(NestedEvents, MaxNested) /\ UNCHANGED notEx

SpecExtract == ExInit /\ [][ExtractNext]_vars

SpecNested == ExInit /\ [][NestedNext]_vars

(***************************************************************************)
(* make_folder_name applied to a title and a company.                      *)
(***************************************************************************)
\* a word one character longer than a slug may be
LongWord == [i \in 1..(SlugMaxLen + 1) |-> "a"]

\* a word one character longer than a company word may be
NoiseLenWord == [i \in 1..(NoiseLen + 1) |-> "b"]

TitleChunks == { <<"C", "o", "n">>, <<"S", "e", "n", "i", "o", "r">>, <<" ">>, <<"-">> }

CompanyChunks ==
    { <<"A", "c", "m", "e">>, <<"W", "e", "b", "k", "i", "t">>, <<"C", "s", "s", "1", "2", "3">>, LongWord, NoiseLenWord, <<" ">>, <<"-">> }

\* the strings made of at most n chunks
Chunked(chunks, n) ==
    { Flatten(cs) : cs \in UNION { [1..k -> chunks] : k \in 0..n } }

NmInit ==
    /\ job_title \in Chunked(TitleChunks, MaxTitleChunks)
    /\ job_company \in Chunked(CompanyChunks, MaxCompanyChunks)
    /\ platform \in {"nt", "posix"}
    /\ folder_name = None
    /\ title_part = None
    /\ company_part = None
    /\ combined = None
    /\ ExIdle /\ ScIdle /\ LoIdle /\ RestIdle

CallMakeFolderName ==
    /\ folder_name = None
    /\ title_part' = _abbreviate_title(job_title)
    /\ company_part' = _company_slug(job_company)
    /\ combined' = CombineParts(title_part', company_part')
    /\ folder_name' = make_folder_name(job_title, job_company, platform)
    /\ UNCHANGED <<job_title, job_company, platform>>

NameNext == CallMakeFolderName /\ UNCHANGED notNm

SpecName == NmInit /\ [][NameNext]_vars

(***************************************************************************)
(* make_folder_name applied to a title or a company that grows word by     *)
(* word.                                                                   *)
(***************************************************************************)
TitleWords ==
    { <<"S", "e", "n", "i", "o", "r">>, <<"S", "o", "f", "t", "w", "a", "r", "e">>,
      <<"E", "n", "g", "i", "n", "e", "e", "r">>, <<"Q", "A">> }

TitleSeparators == {" ", "/"}

NameWords ==
    { <<"A", "c", "m", "e">>, <<"W", "e", "b", "k", "i", "t">>,
      <<"C", "s", "s", "1", "2", "3">> }

\* the words of a text whose words are set apart by single separators
WordsOf(text, seps) == NonEmptyOnes(SplitOn(text, seps))

WdInit ==
    /\ job_title = <<>>
    /\ job_company = <<>>
    /\ platform = "posix"
    /\ folder_name = None
    /\ title_part = None
    /\ company_part = None
    /\ combined = None
    /\ ExIdle /\ ScIdle /\ LoIdle /\ RestIdle

\* the title argument is one word longer
AppendTitleWord ==
    /\ folder_name = None
    /\ job_company = <<>>
    /\ Len(WordsOf(job_title, TitleSeparators)) < MaxTitleWords
    /\ \E w \in TitleWords : \E sep \in TitleSeparators :
           job_title' = IF job_title = <<>> THEN w ELSE job_title \o <<sep>> \o w
    /\ UNCHANGED <<job_company, platform, folder_name, title_part, company_part,
                   combined>>

\* the company argument is one word longer
AppendCompanyWord ==
    /\ folder_name = None
    /\ job_title = <<>>
    /\ Len(WordsOf(job_company, {" "})) < MaxNameWords
    /\ \E w \in NameWords :
           job_company' = IF job_company = <<>> THEN w ELSE job_company \o <<" ">> \o w
    /\ UNCHANGED <<job_title, platform, folder_name, title_part, company_part,
                   combined>>

WordsNext ==
    \/ AppendTitleWord /\ UNCHANGED notNm
    \/ AppendCompanyWord /\ UNCHANGED notNm
    \/ CallMakeFolderName /\ UNCHANGED notNm

SpecWords == WdInit /\ [][WordsNext]_vars

(***************************************************************************)
(* scrape_job on a page (scraper.py).  A page is a sequence of blocks of   *)
(* markup, named; Markup gives the event sequence of a page.               *)
(***************************************************************************)
ScriptBlock(type, content) ==
    << StartEv("script", [NoAttrs EXCEPT !.type = type]), DataEv(<<content>>),
       EndEv("script") >>

MetaBlock(property, content) ==
    << StartEv("meta", [NoAttrs EXCEPT !.property = property, !.content = content]) >>

BlockEvents(name) ==
    CASE name = "ld_posting" -> ScriptBlock("application/ld+json", "json:posting")
      [] name = "ld_bare" -> ScriptBlock("Application/LD+JSON", "json:bare")
      [] name = "plain_graph" -> ScriptBlock(Absent, "json:graph")
      [] name = "ld_broken" -> ScriptBlock("application/ld+json", "{broken")
      [] name = "js_posting" -> ScriptBlock("text/javascript", "json:posting")
      [] name = "h1" ->
             << StartEv("h1", NoAttrs), DataEv(<<"Engineer">>), EndEv("h1") >>
      [] name = "h1_human" ->
             << StartEv("h1", NoAttrs), DataEv(<<"verify you are a human">>),
                EndEv("h1") >>
      [] name = "desc" ->
             << StartEv("div", DescAttrs), StartEv("p", NoAttrs),
                DataEv(<<"Build", " ", "things">>), EndEv("p"), EndEv("div") >>
      [] name = "company" ->
             << StartEv("div", CompanyAttrs), DataEv(<<"Acme">>), EndEv("div") >>
      [] name = "og_hiring" ->
             MetaBlock("og:title", "Acme hiring Engineer in Paris | LinkedIn")
      [] name = "og_desc_blank" -> MetaBlock("og:description", " ")
      [] name = "markup" ->
             << StartEv("div", [NoAttrs EXCEPT
                                   !.class = "show-more-less-html__markup relative"]),
                DataEv(<<"About", " ", "us">>), EndEv("div") >>
      [] name = "t_captcha" -> << DataEv(<<"CAPTCHA">>) >>
      [] name = "t_human" -> << DataEv(<<"Verify you are a human">>) >>
      [] name = "t_verify" -> << DataEv(<<"verify you are a human">>) >>
      [] name = "t_signin" -> << DataEv(<<"Sign in to view">>) >>
      [] name = "t_loggedin" -> << DataEv(<<"\"isLoggedIn\":false">>) >>
      [] OTHER -> <<>>

Blocks ==
    { "ld_posting", "ld_bare", "plain_graph", "ld_broken", "js_posting", "h1",
      "h1_human", "desc", "company", "og_hiring", "og_desc_blank", "markup",
      "t_captcha", "t_human", "t_verify", "t_signin", "t_loggedin" }

Urls == { "https://www.LinkedIn.com/jobs/view/2", "https://ca.indeed.com/viewjob?jk=1" }

Markup(blocks) == Flatten([i \in 1..Len(blocks) |-> BlockEvents(blocks[i])])

ScInit ==
    /\ url \in Urls
    /\ page \in UNION { [1..n -> Blocks] : n \in 0..MaxBlocks }
    /\ html_text = <<>>
    /\ job = NoJob
    /\ error = None
    /\ pc = "fetch"
    /\ ExIdle /\ NmIdle /\ LoIdle /\ RestIdle

\* html = fetch_html(url)
Fetch ==
    /\ pc = "fetch"
    /\ html_text' = Markup(page)
    /\ pc' = "jsonld"
    /\ UNCHANGED <<url, page, job, error>>

\* job = parse_indeed_job(html)
StageJsonLd ==
    /\ pc = "jsonld"
    /\ job' = parse_indeed_job(html_text)
    /\ pc' = "linkedin"
    /\ UNCHANGED <<url, page, html_text, error>>

StageLinkedin ==
    /\ pc = "linkedin"
    /\ job' = TryLinkedin(job, IsLinkedin(url), html_text)
    /\ pc' = "generic"
    /\ UNCHANGED <<url, page, html_text, error>>

StageGeneric ==
    /\ pc = "generic"
    /\ job' = TryGeneric(job, html_text)
    /\ pc' = "check"
    /\ UNCHANGED <<url, page, html_text, error>>

\* return job
Return ==
    /\ pc = "check"
    /\ ~job.none
    /\ pc' = "returned"
    /\ UNCHANGED <<url, page, html_text, job, error>>

\* if not job: raise ValueError(...)
Raise ==
    /\ pc = "check"
    /\ job.none
    /\ error' = Diagnose(html_text, IsLinkedin(url))
    /\ pc' = "raised"
    /\ UNCHANGED <<url, page, html_text, job>>

ScrapeNext ==
    \/ Fetch /\ UNCHANGED notSc
    \/ StageJsonLd /\ UNCHANGED notSc
    \/ StageLinkedin /\ UNCHANGED notSc
    \/ StageGeneric /\ UNCHANGED notSc
    \/ Return /\ UNCHANGED notSc
    \/ Raise /\ UNCHANGED notSc

SpecScrape == ScInit /\ [][ScrapeNext]_vars

(***************************************************************************)
(* The structured-data locator on the payloads of a page (scraper.py).     *)
(* tokens is the sequence, in document order, of the values of all the     *)
(* payloads; a value of depth 0 starts a payload.                          *)
(***************************************************************************)
\* the values a document grows by: a string, a list, a map, and a map with
\* an @type of each form
Shape(label, d, key) ==
    CASE label = "str" -> << Tok(d, key, "str", <<"s">>) >>
      [] label = "list" -> << Tok(d, key, "list", <<>>) >>
      [] label = "map" -> << Tok(d, key, "map", <<>>) >>
      [] label = "posting" ->
             << Tok(d, key, "map", <<>>), Tok(d + 1, "@type", "str", <<"JobPosting">>) >>
      [] label = "other" ->
             << Tok(d, key, "map", <<>>),
                Tok(d + 1, "@type", "str", <<"Organization">>) >>
      [] OTHER ->
             << Tok(d, key, "map", <<>>), Tok(d + 1, "@type", "list", <<>>),
                Tok(d + 2, "", "str", <<"Thing">>),
                Tok(d + 2, "", "str", <<"JobPosting">>) >>

Labels == {"str", "list", "map", "posting", "other", "typed"}

\* the value a new value of depth d would be a member of (0: a new payload)
Holder(toks, d) ==
    IF d = 0 \/ {i \in 1..Len(toks) : toks[i].d = d - 1} = {} THEN 0
    ELSE Greatest({i \in 1..Len(toks) : toks[i].d = d - 1})

\* the payloads, parsed: what _extract_json_ld returns
Payloads(toks) ==
    LET roots == SelectSeq(Indices(toks), LAMBDA i : toks[i].d = 0)
    IN  [n \in 1..Len(roots) |-> Build(toks, roots[n])]

LoInit ==
    /\ tokens = <<>>
    /\ located = NoneNode
    /\ searched = FALSE
    /\ ExIdle /\ NmIdle /\ ScIdle /\ RestIdle

\* the page holds one more value
AppendValue ==
    /\ ~searched
    /\ \E label \in Labels : \E d \in 0..MaxTokens :
           /\ Len(tokens) + Len(Shape(label, d, "")) <= MaxTokens
           /\ d = 0 \/ (tokens # <<>> /\ d <= tokens[Len(tokens)].d + 1
                        /\ Holder(tokens, d) # 0
                        /\ tokens[Holder(tokens, d)].k \in {"map", "list"})
           /\ tokens' = tokens \o
                  Shape(label, d,
                        IF d > 0 /\ tokens[Holder(tokens, d)].k = "map"
                        THEN ToString(Len(tokens)) ELSE "")
    /\ UNCHANGED <<located, searched>>

\* parse_indeed_job: the search of the payloads in order
Locate ==
    /\ ~searched
    /\ located' = FirstPosting(Payloads(tokens))
    /\ searched' = TRUE
    /\ UNCHANGED tokens

LocateNext ==
    \/ AppendValue /\ UNCHANGED notLo
    \/ Locate /\ UNCHANGED notLo

SpecLocate == LoInit /\ [][LocateNext]_vars

(***************************************************************************)
(* _normalize_job applied to a matched JobPosting map (scraper.py).        *)
(***************************************************************************)
\* a member of the posting with a text as its value
TextField(key, text) == << Tok(1, key, "str", text) >>

\* the values a hiringOrganization list is made of
OrgItems ==
    { << Tok(2, "", "str", <<"s">>) >>,
      << Tok(2, "", "map", <<>>) >>,
      << Tok(2, "", "map", <<>>), Tok(3, "name", "str", <<>>) >>,
      << Tok(2, "", "map", <<>>), Tok(3, "name", "str", <<"H">>) >>,
      << Tok(2, "", "map", <<>>), Tok(3, "name", "str", <<" ", "K">>) >> }

TitleFields ==
    { <<>>, TextField("title", <<>>), TextField("title", <<" ">>),
      TextField("title", <<"X">>), TextField("title", <<" ", "X", " ">>) }

NameFields == { <<>>, TextField("name", <<"N">>) }

OrgFields ==
    { <<>>,
      << Tok(1, "hiringOrganization", "str", <<"S">>) >>,
      << Tok(1, "hiringOrganization", "map", <<>>) >>,
      << Tok(1, "hiringOrganization", "map", <<>>), Tok(2, "name", "str", <<>>) >>,
      << Tok(1, "hiringOrganization", "map", <<>>), Tok(2, "name", "str", <<"Y">>) >> }
    \cup { << Tok(1, "hiringOrganization", "list", <<>>) >> \o Flatten(items) :
               items \in UNION { [1..n -> OrgItems] : n \in 0..MaxOrgItems } }

DescriptionFields ==
    { <<>>, TextField("description", <<>>),
      TextField("description", <<"<p>", "Z", "</p>">>),
      TextField("description", <<"Z", "<br>", "W", " ">>) }

NoInit ==
    /\ \E title \in TitleFields : \E name \in NameFields : \E org \in OrgFields :
       \E description \in DescriptionFields :
           posting_doc = << Tok(0, "", "map", <<>>),
                            Tok(1, "@type", "str", <<"JobPosting">>) >>
                         \o title \o name \o org \o description
    /\ normalized = NoJob
    /\ ExIdle /\ NmIdle /\ ScIdle /\ LoIdle /\ FeIdle /\ GuIdle /\ LateIdle

\* parse_indeed_job: return _normalize_job(job_posting)
Normalize ==
    /\ normalized = NoJob
    /\ _find_job_posting(Build(posting_doc, 1)).k # "none"
    /\ normalized' = _normalize_job(_find_job_posting(Build(posting_doc, 1)))
    /\ UNCHANGED posting_doc

NormalizeNext == Normalize /\ UNCHANGED notNo

SpecNormalize == NoInit /\ [][NormalizeNext]_vars

(***************************************************************************)
(* fetch_html (scraper.py).  An attempt is one call of _http_get; it       *)
(* returns the body, raises urllib.error.HTTPError with a status, or       *)
(* raises another exception.                                               *)
(***************************************************************************)
\* len(_build_header_sets())
HeaderSets == 2

\* the statuses _http_get may raise HTTPError with, as texts
Statuses == {"403", "404", "429", "500", "999"}

\* fetch_html with every status retried
RetryableAny(code) == code \in Statuses

\* fetch_html: not (exc.code not in {403, 429, 999})
Retryable(code) == code \in {"403", "429", "999"}

Sites == {"linkedin", "indeed", "other"}

\* time.sleep(1) before the attempt with profile i
SleepBefore(i) == IF i > 0 THEN << [ev |-> "sleep", i |-> i, got |-> None] >> ELSE <<>>

\* _http_get with profile i and what came of it
Attempted(i, got) == << [ev |-> "get", i |-> i, got |-> got] >>

FeInit ==
    /\ target \in [local : BOOLEAN, site : Sites]
    /\ f_pc = "start"
    /\ f_i = 0
    /\ f_trace = <<>>
    /\ last_error = None
    /\ f_result = None
    /\ ExIdle /\ NmIdle /\ ScIdle /\ LoIdle /\ NoIdle /\ GuIdle /\ LateIdle

\* if local_path: return _read_local(local_path)
ReadLocal ==
    /\ f_pc = "start"
    /\ target.local
    /\ f_result' = "local text"
    /\ f_pc' = "returned"
    /\ UNCHANGED <<target, f_i, f_trace, last_error>>

\* the statements between the local path test and the loop
EnterLoop ==
    /\ f_pc = "start"
    /\ ~target.local
    /\ f_pc' = IF HeaderSets > 0 THEN "attempt" ELSE "after"
    /\ UNCHANGED <<target, f_i, f_trace, last_error, f_result>>

\* one pass of the loop in which _http_get returns
AttemptReturns ==
    /\ f_pc = "attempt"
    /\ f_trace' = f_trace \o SleepBefore(f_i) \o Attempted(f_i, "ok")
    /\ f_result' = "body"
    /\ f_pc' = "returned"
    /\ UNCHANGED <<target, f_i, last_error>>

\* one pass of the loop in which _http_get raises HTTPError
AttemptHttpError ==
    /\ f_pc = "attempt"
    /\ \E code \in Statuses :
           /\ f_trace' = f_trace \o SleepBefore(f_i) \o Attempted(f_i, code)
           /\ last_error' = code
           /\ IF Retryable(code) /\ f_i + 1 < HeaderSets
              THEN f_i' = f_i + 1 /\ f_pc' = "attempt"
              ELSE f_i' = f_i /\ f_pc' = "after"
    /\ UNCHANGED <<target, f_result>>

\* the pass of the loop with `except Exception` in place of
\* `except urllib.error.HTTPError`
AttemptOtherErrorCaught ==
    /\ f_pc = "attempt"
    /\ f_trace' = f_trace \o SleepBefore(f_i) \o Attempted(f_i, "URLError")
    /\ last_error' = "URLError"
    /\ IF f_i + 1 < HeaderSets
       THEN f_i' = f_i + 1 /\ f_pc' = "attempt"
       ELSE f_i' = f_i /\ f_pc' = "after"
    /\ UNCHANGED <<target, f_result>>

\* one pass of the loop in which _http_get raises another exception
AttemptOtherError ==
    /\ f_pc = "attempt"
    /\ f_trace' = f_trace \o SleepBefore(f_i) \o Attempted(f_i, "URLError")
    /\ f_result' = "URLError"
    /\ f_pc' = "raised"
    /\ UNCHANGED <<target, f_i, last_error>>

\* the statements after the loop
RaiseLast ==
    /\ f_pc = "after"
    /\ f_result' =
           IF last_error = None THEN "RuntimeError"
           ELSE IF last_error = "999" /\ target.site = "linkedin" THEN "LinkedIn blocked"
           ELSE IF last_error = "403" /\ target.site = "indeed" THEN "Indeed blocked"
           ELSE "HTTPError"
    /\ f_pc' = "raised"
    /\ UNCHANGED <<target, f_i, f_trace, last_error>>

FetchNext ==
    \/ ReadLocal /\ UNCHANGED notFe
    \/ EnterLoop /\ UNCHANGED notFe
    \/ AttemptReturns /\ UNCHANGED notFe
    \/ AttemptHttpError /\ UNCHANGED notFe
    \/ AttemptOtherError /\ UNCHANGED notFe
    \/ RaiseLast /\ UNCHANGED notFe

\* every statement of fetch_html ends: _http_get has a timeout
SpecFetch == FeInit /\ [][FetchNext]_vars /\ WF_vars(FetchNext)

(***************************************************************************)
(* The Run button of the GUI and its background worker (gui.py).  The      *)
(* interactive thread runs the handlers of the widgets and the callbacks   *)
(* scheduled with after(0, ...), one at a time, oldest first; a worker     *)
(* runs wrapper() one statement at a time.                                 *)
(***************************************************************************)
Modes == {"url", "empty", "tex"}

\* a callback scheduled with self.after(0, fn, arg)
Callback(fn, arg) == [fn |-> fn, arg |-> arg]

_log_msg(self, tag) == [self EXCEPT !.log = Append(@, tag)]

_set_status(self, msg) == [self EXCEPT !.status = msg]

\* _set_busy that leaves the Run button as it is
SetBusyKeepsButton(self, busy) ==
    IF busy THEN [self EXCEPT !.status = "Working"] ELSE self

_set_busy(self, busy) ==
    IF busy THEN [self EXCEPT !.run_btn = "disabled", !.status = "Working"]
    ELSE [self EXCEPT !.run_btn = "normal"]

\* _on_run without its two statements about the Open Folder button
ClearForRunLogOnly(self) == [self EXCEPT !.log = <<>>]

\* _on_run up to the choice of the mode
ClearForRun(self) ==
    [self EXCEPT !.log = <<>>, !.open_folder_btn = "disabled", !.last_folder = None]

GuInit ==
    GuIdle /\ ExIdle /\ NmIdle /\ ScIdle /\ LoIdle /\ NoIdle /\ FeIdle /\ LateIdle

\* _on_run with an empty entry: _run_url, _run_empty or _run_tex returns
\* after its warning
ClickRunNoInput ==
    /\ app.run_btn = "normal"
    /\ runs < MaxRuns
    /\ runs' = runs + 1
    /\ app' = _log_msg(ClearForRun(app), "warn")
    /\ UNCHANGED <<after_queue, workers>>

\* _on_run with input: _run_in_thread(work) sets busy and starts the thread
ClickRunStart ==
    /\ app.run_btn = "normal"
    /\ runs < MaxRuns
    /\ runs' = runs + 1
    /\ \E mode \in Modes :
           /\ app' = _set_busy(ClearForRun(app), TRUE)
           /\ workers' = Append(workers, [pc |-> "announce", mode |-> mode,
                                          raised |-> FALSE])
    /\ UNCHANGED after_queue

\* worker w goes to place pc after scheduling the callbacks cbs
Goes(w, pc_, cbs) ==
    /\ workers' = [workers EXCEPT ![w].pc = pc_]
    /\ after_queue' = after_queue \o cbs
    /\ UNCHANGED runs

\* work(): the first self.after(0, self._log_msg, ...)
WorkAnnounce(w) ==
    /\ workers[w].pc = "announce"
    /\ Goes(w, "call", << Callback("_log_msg", "accent") >>)
    /\ UNCHANGED app

\* work(): scrape_job, process_empty_job or _compile_resume returns
WorkCallReturns(w) ==
    /\ workers[w].pc = "call"
    /\ IF workers[w].mode = "url"
       THEN Goes(w, "process", << Callback("_log_msg", "info"),
                                  Callback("_log_msg", "info") >>)
       ELSE Goes(w, "store", <<>>)
    /\ UNCHANGED app

\* work() of _run_url: process_job returns
WorkProcessReturns(w) ==
    /\ workers[w].pc = "process"
    /\ Goes(w, "store", <<>>)
    /\ UNCHANGED app

\* work(): the call raises; raised records it for the claims
WorkRaises(w) ==
    /\ workers[w].pc \in {"call", "process"}
    /\ workers' = [workers EXCEPT ![w].pc = "except", ![w].raised = TRUE]
    /\ UNCHANGED <<app, after_queue, runs>>

\* work(): self._last_folder = folder, on the worker thread
WorkStoreFolder(w) ==
    /\ workers[w].pc = "store"
    /\ app' = [app EXCEPT !.last_folder = ToString(w)]
    /\ Goes(w, "log", <<>>)

\* work(): the self.after(0, self._log_msg, ...) of the result
WorkLogResult(w) ==
    /\ workers[w].pc = "log"
    /\ Goes(w, "status", << Callback("_log_msg", "success") >>)
    /\ UNCHANGED app

\* work(): self.after(0, self._set_status, "Done ...") or "PDF ready ..."
WorkStatusDone(w) ==
    /\ workers[w].pc = "status"
    /\ Goes(w, "open", << Callback("_set_status",
                                   IF workers[w].mode = "tex" THEN "PDF ready"
                                   ELSE "Done") >>)
    /\ UNCHANGED app

\* work(): self.after(0, lambda: self._open_folder_btn.config(state=tk.NORMAL))
WorkEnableOpen(w) ==
    /\ workers[w].pc = "open"
    /\ Goes(w, "finally", << Callback("open_folder_btn", "normal") >>)
    /\ UNCHANGED app

\* the except clause without its self.after(0, self._set_status, "Failed")
WorkExceptNoStatus(w) ==
    /\ workers[w].pc = "except"
    /\ Goes(w, "finally", << Callback("_log_msg", "error") >>)
    /\ UNCHANGED app

\* wrapper(): except Exception as e
WorkExcept(w) ==
    /\ workers[w].pc = "except"
    /\ Goes(w, "finally", << Callback("_log_msg", "error"),
                              Callback("_set_status", "Failed") >>)
    /\ UNCHANGED app

\* wrapper(): finally, its last statement
WorkFinally(w) ==
    /\ workers[w].pc = "finally"
    /\ Goes(w, "done", << Callback("_set_busy", FALSE) >>)
    /\ UNCHANGED app

\* the interactive thread runs the oldest callback
RunCallback ==
    /\ after_queue # <<>>
    /\ LET cb == Head(after_queue)
       IN  app' = CASE cb.fn = "_log_msg" -> _log_msg(app, cb.arg)
                    [] cb.fn = "_set_status" -> _set_status(app, cb.arg)
                    [] cb.fn = "_set_busy" -> _set_busy(app, cb.arg)
                    [] OTHER -> [app EXCEPT !.open_folder_btn = cb.arg]
    /\ after_queue' = Tail(after_queue)
    /\ UNCHANGED <<workers, runs>>

GuiNext ==
    \/ ClickRunNoInput /\ UNCHANGED notGu
    \/ ClickRunStart /\ UNCHANGED notGu
    \/ RunCallback /\ UNCHANGED notGu
    \/ \E w \in 1..Len(workers) :
           \/ WorkAnnounce(w) /\ UNCHANGED notGu
           \/ WorkCallReturns(w) /\ UNCHANGED notGu
           \/ WorkProcessReturns(w) /\ UNCHANGED notGu
           \/ WorkRaises(w) /\ UNCHANGED notGu
           \/ WorkStoreFolder(w) /\ UNCHANGED notGu
           \/ WorkLogResult(w) /\ UNCHANGED notGu
           \/ WorkStatusDone(w) /\ UNCHANGED notGu
           \/ WorkEnableOpen(w) /\ UNCHANGED notGu
           \/ WorkExcept(w) /\ UNCHANGED notGu
           \/ WorkFinally(w) /\ UNCHANGED notGu

SpecGui == GuInit /\ [][GuiNext]_vars

\* a step of a background thread
WorkerStep ==
    \E w \in 1..Len(workers) :
        \/ WorkAnnounce(w) \/ WorkCallReturns(w) \/ WorkProcessReturns(w)
        \/ WorkRaises(w) \/ WorkStoreFolder(w) \/ WorkLogResult(w)
        \/ WorkStatusDone(w) \/ WorkEnableOpen(w) \/ WorkExcept(w)
        \/ WorkFinally(w)

\* the GUI with its scheduling: a started thread runs on (the calls of
\* work() return or raise) and mainloop() runs every callback scheduled
SpecGuiLive ==
    /\ GuInit
    /\ [][GuiNext]_vars
    /\ WF_vars(WorkerStep /\ UNCHANGED notGu)
    /\ WF_vars(RunCallback /\ UNCHANGED notGu)

(***************************************************************************)
(* file_ops.py.  A text is a sequence of lines and a line a sequence of     *)
(* words; a word has a name and a number of characters.  A file holds the  *)
(* lines of its text, each ended by a newline.                              *)
(***************************************************************************)
WrapWidth == 80

Word(s_, n_) == [s |-> s_, n |-> n_]

RECURSIVE LineLen(_)
\* the characters of a line whose words are one space apart
LineLen(line) ==
    IF line = <<>> THEN 0
    ELSE IF Len(line) = 1 THEN line[1].n
    ELSE line[1].n + 1 + LineLen(Tail(line))

RECURSIVE Fill(_, _, _)
\* textwrap.fill(line, width, break_long_words=False): cur is the line
\* being filled; a word longer than the width gets a line of its own
Fill(words, cur, width) ==
    IF words = <<>> THEN (IF cur = <<>> THEN <<>> ELSE <<cur>>)
    ELSE IF cur = <<>> THEN Fill(Tail(words), <<Head(words)>>, width)
    ELSE IF LineLen(cur) + 1 + Head(words).n <= width
         THEN Fill(Tail(words), Append(cur, Head(words)), width)
         ELSE <<cur>> \o Fill(words, <<>>, width)

RECURSIVE _wrap_text(_, _)
_wrap_text(text, width) ==
    IF text = <<>> THEN <<>>
    ELSE (IF Head(text) = <<>> THEN << <<>> >> ELSE Fill(Head(text), <<>>, width))
         \o _wrap_text(Tail(text), width)

RECURSIVE RStripLines(_)
\* str.rstrip() of the lines joined with newlines
RStripLines(lines) ==
    IF lines = <<>> THEN <<>>
    ELSE IF lines[Len(lines)] = <<>> THEN RStripLines(SubSeq(lines, 1, Len(lines) - 1))
    ELSE lines

\* the text x.rstrip() + "\n" as the lines of a file
EndWithNewline(lines) ==
    IF RStripLines(lines) = <<>> THEN << <<>> >> ELSE RStripLines(lines)

\* write_description: payload
DescriptionPayload(description, source_url) ==
    LET header == IF source_url # ""
                  THEN << << Word("Source:", 7), Word(source_url, 1) >>, <<>> >>
                  ELSE <<>>
        wrapped == RStripLines(_wrap_text(description, WrapWidth))
    IN  EndWithNewline(header \o wrapped)

\* write_prompt_file: payload
PromptPayload(prompt_text, description) ==
    LET prompt_block == RStripLines(_wrap_text(prompt_text, WrapWidth))
        description_block == RStripLines(_wrap_text(description, WrapWidth))
    IN  EndWithNewline(
            IF prompt_block # <<>> /\ description_block # <<>>
            THEN prompt_block \o << <<>> >> \o description_block
            ELSE prompt_block \o description_block)

\* Path.write_text that adds to the text the file holds
WriteTextAppends(d, name, payload) ==
    [d EXCEPT !.files[name] = HoldsFile(@.lines \o payload)]

\* file_path.write_text(payload, encoding="utf-8")
write_text(d, name, payload) == [d EXCEPT !.files[name] = HoldsFile(payload)]

\* folder_path.mkdir(parents=True, exist_ok=True)
ensure_job_folder(d) == [d EXCEPT !.exists = TRUE]

write_description(d, filename, description, source_url) ==
    write_text(d, filename, DescriptionPayload(description, source_url))

write_prompt_file(d, filename, prompt_text, description) ==
    write_text(d, filename, PromptPayload(prompt_text, description))

\* copy_template_file that copies over a target that exists
CopyTemplateOverwrites(d, template, target_name) ==
    IF ~template.there THEN d
    ELSE [d EXCEPT !.files[target_name] = template]

\* copy_template_file: the folder after the call
copy_template_file(d, template, target_name) ==
    IF ~template.there THEN d
    ELSE IF d.files[target_name].there THEN d
    ELSE [d EXCEPT !.files[target_name] = template]

\* copy_template_file: what the call returns
CopyResult(template, target_name) ==
    IF ~template.there THEN None ELSE target_name

(***************************************************************************)
(* The functions of file_ops called in any order on one job folder.        *)
(***************************************************************************)
\* a description of two paragraphs: three words that do not fit one line,
\* and a word longer than a line
TwoParagraphs ==
    << << Word("a", 30), Word("b", 40), Word("a", 30) >>, <<>>, << Word("c", 81) >> >>

Descriptions == { <<>>, TwoParagraphs }

\* the text of a prompt template, with a blank line at its end
PromptLines == << << Word("p", 30) >>, <<>> >>

PromptTexts == { <<>>, PromptLines }

\* the text of templates/resume-template.tex
ResumeLines == << << Word("documentclass", 13) >> >>

FiInit ==
    /\ disk = [exists |-> FALSE, files |-> [n \in FileNames |-> NoFile]]
    /\ templates \in [main : {NoFile}, cover : {NoFile},
                       resume : {NoFile, HoldsFile(ResumeLines)}]
    /\ fo_last = NoCall
    /\ fo_ops = 0
    /\ ExIdle /\ NmIdle /\ ScIdle /\ LoIdle /\ NoIdle /\ FeIdle /\ GuIdle
    /\ PjIdle /\ CoIdle

\* a call of file_ops and what it returned or raised
Called(op, name, description, source_url, prompt_text, result) ==
    /\ fo_ops < MaxOps
    /\ fo_ops' = fo_ops + 1
    /\ fo_last' = [op |-> op, name |-> name, description |-> description,
                   source_url |-> source_url, prompt_text |-> prompt_text,
                   result |-> result]
    /\ UNCHANGED templates

FoEnsureJobFolder ==
    /\ disk' = ensure_job_folder(disk)
    /\ Called("ensure_job_folder", "", <<>>, "", <<>>, "folder")

\* write_description; write_text raises when the folder does not exist
FoWriteDescription ==
    \E filename \in {"job.txt", "prompt.txt"} : \E description \in Descriptions :
    \E source_url \in {"", "u"} :
        IF disk.exists
        THEN /\ disk' = write_description(disk, filename, description, source_url)
             /\ Called("write_description", filename, description, source_url, <<>>,
                       filename)
        ELSE /\ disk' = disk
             /\ Called("write_description", filename, description, source_url, <<>>,
                       "FileNotFoundError")

\* write_prompt_file; write_text raises when the folder does not exist
FoWritePromptFile ==
    \E filename \in {"job.txt", "prompt.txt"} : \E description \in Descriptions :
    \E prompt_text \in PromptTexts :
        IF disk.exists
        THEN /\ disk' = write_prompt_file(disk, filename, prompt_text, description)
             /\ Called("write_prompt_file", filename, description, "", prompt_text,
                       filename)
        ELSE /\ disk' = disk
             /\ Called("write_prompt_file", filename, description, "", prompt_text,
                       "FileNotFoundError")

\* copy_template_file; shutil.copyfile raises when the folder does not exist
FoCopyTemplateFile ==
    \E target_name \in {"resume-template.tex", "prompt.txt"} :
        IF templates.resume.there /\ ~disk.exists
        THEN /\ disk' = disk
             /\ Called("copy_template_file", target_name, <<>>, "", <<>>,
                       "FileNotFoundError")
        ELSE /\ disk' = copy_template_file(disk, templates.resume, target_name)
             /\ Called("copy_template_file", target_name, <<>>, "", <<>>,
                       CopyResult(templates.resume, target_name))

FilesNext ==
    \/ FoEnsureJobFolder /\ UNCHANGED notFi
    \/ FoWriteDescription /\ UNCHANGED notFi
    \/ FoWritePromptFile /\ UNCHANGED notFi
    \/ FoCopyTemplateFile /\ UNCHANGED notFi

SpecFiles == FiInit /\ [][FilesNext]_vars

(***************************************************************************)
(* process_job (processor.py) and the templates of prompt_creator.py.      *)
(***************************************************************************)
RECURSIVE LStripLines(_)
LStripLines(lines) ==
    IF lines = <<>> THEN <<>>
    ELSE IF Head(lines) = <<>> THEN LStripLines(Tail(lines))
    ELSE lines

\* str.strip() of a text of lines
StripLines(lines) == RStripLines(LStripLines(lines))

\* "Description not found."
NotFoundLines == << << Word("Description", 11), Word("not", 3), Word("found.", 6) >> >>

\* description or "Description not found."
DescriptionOrDefault(description) ==
    IF description = <<>> THEN NotFoundLines ELSE description

\* f"{folder_name}.txt" among the names of the folder
DescriptionName(name) ==
    IF name = <<"p", "r", "o", "m", "p", "t">> THEN "prompt.txt"
    ELSE IF name = <<"p", "r", "o", "m", "p", "t", "-", "c", "o", "v", "e", "r">>
         THEN "prompt-cover.txt"
    ELSE "job.txt"

\* the text of the template files of templates/ or, french, templates_vf/
TemplateLines(kind, french) ==
    << << Word(kind, 30), Word(IF french THEN "vf" ELSE "en", 2) >>, <<>> >>

\* a template file of the directory in use: there or missing
TemplateFiles(kind, french) == { NoFile, HoldsFile(TemplateLines(kind, french)) }

\* _read_template: path.read_text(encoding="utf-8").strip()
_read_template(file) == StripLines(file.lines)

\* title and company as the scraper may deliver them
JobTitles == { <<>>, <<" ">>, <<"Q", "A">>, <<"!">> }
JobCompanies == { <<>>, <<" ">>, <<"A", "c", "m", "e">>, <<"p", "r", "o", "m", "p", "t">> }
JobDescriptions == { <<>>, << <<>>, << Word("a", 30), Word("b", 60) >>, <<>> >> }

\* the text the files of an earlier run hold
OldFile == HoldsFile(<< << Word("old", 3) >> >>)

\* the job folder before the call: missing, empty, or left by an earlier run
DisksBefore ==
    { [exists |-> FALSE, files |-> [n \in FileNames |-> NoFile]],
      [exists |-> TRUE, files |-> [n \in FileNames |-> NoFile]],
      [exists |-> TRUE, files |-> [n \in FileNames |-> OldFile]] }

PjInit ==
    /\ job_data \in [title : JobTitles, company : JobCompanies,
                      description : JobDescriptions, source_url : {"", "u"},
                      french : BOOLEAN]
    /\ templates \in [main : TemplateFiles("main", job_data.french),
                       cover : TemplateFiles("cover", job_data.french),
                       resume : TemplateFiles("resume", job_data.french)]
    /\ disk \in DisksBefore
    /\ pj_pc = "start"
    /\ pj_locals = [title |-> <<>>, company |-> <<>>, description |-> <<>>,
                    folder_name |-> <<>>, written |-> {}]
    /\ pj_result = None
    /\ fo_last = NoCall
    /\ fo_ops = 0
    /\ ExIdle /\ NmIdle /\ ScIdle /\ LoIdle /\ NoIdle /\ FeIdle /\ GuIdle /\ CoIdle

\* process_job raises err
PjRaises(err) ==
    /\ pj_result' = err
    /\ pj_pc' = "raised"

\* the condition of the validation error
MissingField(title, company) == title = <<>> \/ company = <<>>

\* lines 143-148: the fields are stripped and one of them is missing
PjValidationError ==
    /\ pj_pc = "start"
    /\ MissingField(Strip(job_data.title), Strip(job_data.company))
    /\ pj_locals' = [pj_locals EXCEPT !.title = Strip(job_data.title),
                                      !.company = Strip(job_data.company),
                                      !.description = StripLines(job_data.description)]
    /\ PjRaises("ValueError")
    /\ UNCHANGED <<job_data, disk, templates>>

\* lines 143-150: the fields are stripped and the folder is named
PjMakeFolderName ==
    /\ pj_pc = "start"
    /\ ~MissingField(Strip(job_data.title), Strip(job_data.company))
    /\ pj_locals' = [pj_locals EXCEPT
           !.title = Strip(job_data.title),
           !.company = Strip(job_data.company),
           !.description = StripLines(job_data.description),
           !.folder_name = make_folder_name(Strip(job_data.title),
                                            Strip(job_data.company), platform)]
    /\ pj_pc' = "ensure"
    /\ UNCHANGED <<job_data, disk, templates, pj_result>>

\* line 151: file_ops.ensure_job_folder; mkdir may fail to make the folder
PjEnsureFolder ==
    /\ pj_pc = "ensure"
    /\ \/ /\ disk' = ensure_job_folder(disk)
          /\ pj_pc' = "description"
          /\ UNCHANGED pj_result
       \/ /\ ~disk.exists
          /\ disk' = disk
          /\ PjRaises("OSError")
    /\ UNCHANGED <<job_data, templates, pj_locals>>

\* a file of the folder is written: the write returns, or the file cannot
\* be opened, or it is opened, which empties it, and the write fails
WriteOrFail(name, written_disk, next_pc) ==
    \/ /\ disk' = written_disk
       /\ pj_locals' = [pj_locals EXCEPT !.written = @ \cup {name}]
       /\ pj_pc' = next_pc
       /\ UNCHANGED pj_result
    \/ /\ disk' = disk
       /\ PjRaises("OSError")
       /\ UNCHANGED pj_locals
    \/ /\ disk' = [disk EXCEPT !.files[name] = HoldsFile(<<>>)]
       /\ PjRaises("OSError")
       /\ UNCHANGED pj_locals

\* lines 152-157: file_ops.write_description
PjWriteDescription ==
    /\ pj_pc = "description"
    /\ LET name == DescriptionName(pj_locals.folder_name)
       IN  WriteOrFail(name,
                       write_description(disk, name,
                                         DescriptionOrDefault(pj_locals.description),
                                         job_data.source_url),
                       "prompt")
    /\ UNCHANGED <<job_data, templates>>

\* a prompt file: the template is read, which raises when it is missing,
\* before file_ops.write_prompt_file is called
WritePrompt(name, template, next_pc) ==
    IF ~template.there
    THEN /\ PjRaises("FileNotFoundError")
         /\ UNCHANGED <<disk, pj_locals>>
    ELSE WriteOrFail(name,
                     write_prompt_file(disk, name, _read_template(template),
                                       DescriptionOrDefault(pj_locals.description)),
                     next_pc)

\* lines 158-163: prompt.txt
PjWritePrompt ==
    /\ pj_pc = "prompt"
    /\ WritePrompt("prompt.txt", templates.main, "cover")
    /\ UNCHANGED <<job_data, templates>>

\* lines 164-169: prompt-cover.txt
PjWriteCoverPrompt ==
    /\ pj_pc = "cover"
    /\ WritePrompt("prompt-cover.txt", templates.cover, "template")
    /\ UNCHANGED <<job_data, templates>>

\* lines 171-176: file_ops.copy_template_file, which copies only a template
\* that exists to a target that does not
PjCopyTemplate ==
    /\ pj_pc = "template"
    /\ IF templates.resume.there /\ ~disk.files["resume-template.tex"].there
       THEN WriteOrFail("resume-template.tex",
                        copy_template_file(disk, templates.resume, "resume-template.tex"),
                        "return")
       ELSE /\ disk' = copy_template_file(disk, templates.resume, "resume-template.tex")
            /\ pj_pc' = "return"
            /\ UNCHANGED <<pj_locals, pj_result>>
    /\ UNCHANGED <<job_data, templates>>

\* lines 178-185
PjReturn ==
    /\ pj_pc = "return"
    /\ pj_pc' = "returned"
    /\ pj_result' = "returned"
    /\ UNCHANGED <<job_data, disk, templates, pj_locals>>

ProcessNext ==
    \/ PjValidationError /\ UNCHANGED notPj
    \/ PjMakeFolderName /\ UNCHANGED notPj
    \/ PjEnsureFolder /\ UNCHANGED notPj
    \/ PjWriteDescription /\ UNCHANGED notPj
    \/ PjWritePrompt /\ UNCHANGED notPj
    \/ PjWriteCoverPrompt /\ UNCHANGED notPj
    \/ PjCopyTemplate /\ UNCHANGED notPj
    \/ PjReturn /\ UNCHANGED notPj

SpecProcess == PjInit /\ [][ProcessNext]_vars

(***************************************************************************)
(* _compile_resume and _cleanup_aux (job_tool.py, gui.py).                 *)
(***************************************************************************)
\* the extensions _cleanup_aux goes through
AuxExtensions ==
    {".aux", ".log", ".out", ".toc", ".nav", ".snm", ".fls", ".fdb_latexmk",
     ".synctex.gz"}

\* _cleanup_aux that leaves Resume.log
CleanupAuxKeepsLog(files, stuck) ==
    (files \ (AuxExtensions \ {".log"})) \cup (files \cap stuck)

\* _cleanup_aux: the files left; unlink() of a file in stuck raises OSError,
\* which is passed over
_cleanup_aux(files, stuck) == (files \ AuxExtensions) \cup (files \cap stuck)

\* the suffixes of the path given
Suffixes == { <<".", "t", "e", "x">>, <<".", "T", "E", "X">>, <<".", "t", "x", "t">> }

\* the files pdflatex may leave in the directory
CompilerFiles == { {".aux", ".log"}, {".aux", ".log", ".out", ".toc"} }

CoInit ==
    /\ tex \in [suffix : Suffixes, is_file : BOOLEAN, variant : {"cli", "gui"},
                 toolchain : {"found", "missing"}, stuck : {{}, {".log"}}]
    /\ aux \in { {}, {".log"}, {".aux", ".synctex.gz", ".pdf"} }
    /\ c_pc = "start"
    /\ c_trace = <<>>
    /\ c_result = NoOutcome
    /\ ExIdle /\ NmIdle /\ ScIdle /\ LoIdle /\ NoIdle /\ FeIdle /\ GuIdle
    /\ FiIdle /\ PjIdle

\* path.suffix.lower() != ".tex" or not path.is_file()
InvalidTex(path) == LowerStr(path.suffix) # <<".", "t", "e", "x">> \/ ~path.is_file

\* _compile_resume ends: it returns or raises
CoEnds(kind, output) ==
    /\ c_result' = [kind |-> kind, output |-> output]
    /\ c_pc' = "ended"

\* raise ValueError(f"Invalid .tex file: {path}")
CoRejectPath ==
    /\ c_pc = "start"
    /\ InvalidTex(tex)
    /\ CoEnds("ValueError", "")
    /\ UNCHANGED <<tex, aux, c_trace>>

\* the first _cleanup_aux(path.parent, stem)
CoCleanupBefore ==
    /\ c_pc = "start"
    /\ ~InvalidTex(tex)
    /\ aux' = _cleanup_aux(aux, tex.stuck)
    /\ c_trace' = Append(c_trace, "cleanup")
    /\ c_pc' = IF tex.variant = "cli" THEN "find" ELSE "run"
    /\ UNCHANGED <<tex, c_result>>

\* job_tool.py: pdflatex = _find_pdflatex(); if not pdflatex: raise
CoFindPdflatex ==
    /\ c_pc = "find"
    /\ IF tex.toolchain = "missing"
       THEN CoEnds("RuntimeError", "pdflatex not found")
       ELSE c_pc' = "run" /\ UNCHANGED c_result
    /\ UNCHANGED <<tex, aux, c_trace>>

\* subprocess.run returns: the compiler ran and exited with returncode
CoRunExits ==
    /\ c_pc = "run"
    /\ tex.toolchain = "found"
    /\ \E returncode \in {0, 1} : \E made \in CompilerFiles :
           /\ aux' = aux \cup made \cup (IF returncode = 0 THEN {".pdf"} ELSE {})
           /\ c_trace' = Append(c_trace, IF returncode = 0 THEN "exit 0" ELSE "exit 1")
    /\ c_pc' = "finally"
    /\ UNCHANGED <<tex, c_result>>

\* subprocess.run raises: the compiler could not be started
CoRunFailsToStart ==
    /\ c_pc = "run"
    /\ c_trace' = Append(c_trace, IF tex.toolchain = "missing" THEN "FileNotFoundError"
                                  ELSE "OSError")
    /\ c_pc' = "finally"
    /\ UNCHANGED <<tex, aux, c_result>>

\* finally: _cleanup_aux(path.parent, stem)
CoCleanupAfter ==
    /\ c_pc = "finally"
    /\ aux' = _cleanup_aux(aux, tex.stuck)
    /\ c_trace' = Append(c_trace, "cleanup")
    /\ c_pc' = "after"
    /\ UNCHANGED <<tex, c_result>>

\* what the call of subprocess.run came to
RunOutcome == c_trace[Len(c_trace) - 1]

\* the statements after the try: the exception of subprocess.run goes on
\* (gui.py has turned FileNotFoundError into RuntimeError), a non-zero
\* returncode raises RuntimeError with result.stdout, else the path is returned
CoFinish ==
    /\ c_pc = "after"
    /\ CASE RunOutcome = "exit 0" -> CoEnds("returned", "Resume.pdf")
         [] RunOutcome = "exit 1" -> CoEnds("RuntimeError", "pdflatex failed: stdout")
         [] RunOutcome = "FileNotFoundError" /\ tex.variant = "gui" ->
                CoEnds("RuntimeError", "pdflatex not found")
         [] OTHER -> CoEnds(RunOutcome, "")
    /\ UNCHANGED <<tex, aux, c_trace>>

CompileNext ==
    \/ CoRejectPath /\ UNCHANGED notCo
    \/ CoCleanupBefore /\ UNCHANGED notCo
    \/ CoFindPdflatex /\ UNCHANGED notCo
    \/ CoRunExits /\ UNCHANGED notCo
    \/ CoRunFailsToStart /\ UNCHANGED notCo
    \/ CoCleanupAfter /\ UNCHANGED notCo
    \/ CoFinish /\ UNCHANGED notCo

SpecCompile == CoInit /\ [][CompileNext]_vars

(***************************************************************************)
(* Claims about _IndeedHTMLExtractor.                                      *)
(***************************************************************************)
Regions == {"title_depth", "company_depth", "desc_depth"}

PartsOf(region) ==
    CASE region = "title_depth" -> "title_parts"
      [] region = "company_depth" -> "company_parts"
      [] OTHER -> "description_parts"

\* the extractor's fields before the i-th event
Before(i) == IF i = 1 THEN ExtractorInit ELSE hist[i - 1]

\* the text of the i-th event went into the region's parts
Captured(i, region) ==
    hist[i][PartsOf(region)] = Append(Before(i)[PartsOf(region)], hist[i].ev.data)

NestedPattern ==
    << StartEv("div", NoAttrs), StartEv("span", NoAttrs), DataEv(<<"text">>),
       EndEv("span"), EndEv("div") >>

\* events k+1 .. k+5 are the nested sequence, fed while the description
\* region is active
NestedAt(k) ==
    /\ k >= 1
    /\ k + 5 <= Len(hist)
    /\ hist[k].desc_depth > 0
    /\ \A j \in 1..5 : hist[k + j].ev = NestedPattern[j]

\* C4: inside an active description region the nested sequence start div,
\* start span, text, end span, end div keeps the description counter above 0
\* at every step, its text is captured, and text that follows the inner end
\* tag is captured too.
C4_NestedKeepsRegion ==
    \A k \in 1..Len(hist) :
        NestedAt(k) =>
            /\ \A j \in 1..5 : hist[k + j].desc_depth > 0
            /\ Captured(k + 3, "desc_depth")
            /\ (k + 6 <= Len(hist) /\ hist[k + 6].ev.kind = "data")
                   => Captured(k + 6, "desc_depth")

C4_Witness ==
    \E k \in 1..Len(hist) :
        /\ NestedAt(k)
        /\ k + 6 <= Len(hist)
        /\ hist[k + 6].ev.kind = "data"
        /\ Len(extractor.description_parts) >= 2

\* C5: the three depth counters are never negative, and an end tag processed
\* while a counter is 0 leaves that counter at 0.
C5_CountersNeverNegative ==
    /\ \A r \in Regions : extractor[r] >= 0
    /\ \A i \in 1..Len(hist) : \A r \in Regions :
           (hist[i].ev.kind = "end" /\ Before(i)[r] = 0) => hist[i][r] = 0

NumEvents(kind) == Cardinality({i \in 1..Len(hist) : hist[i].ev.kind = kind})

C5_Witness ==
    /\ NumEvents("end") > NumEvents("start")
    /\ NumEvents("start") > 0
    /\ hist[Len(hist)].ev.kind = "end"
    /\ \A r \in Regions : Before(Len(hist))[r] = 0 /\ extractor[r] = 0

\* elements that have no end tag: the parser reports a start tag only
VoidTags == {"br"}

\* the change of element nesting an event makes
NestDelta(ev) ==
    CASE ev.kind = "start" /\ ev.tag \notin VoidTags -> 1
      [] ev.kind = "end" -> -1
      [] OTHER -> 0

RECURSIVE NestSum(_, _)
\* the change of element nesting over events from .. to
NestSum(from, to) ==
    IF from > to THEN 0 ELSE NestDelta(hist[to].ev) + NestSum(from, to - 1)

\* the k-th event is the start tag that activates the region
Activates(k, region) ==
    /\ hist[k].ev.kind = "start"
    /\ Before(k)[region] = 0
    /\ hist[k][region] = 1

\* the m-th event is the end tag of the element the k-th event opened
MatchingEnd(k, m) ==
    /\ k < m
    /\ hist[m].ev.kind = "end"
    /\ hist[m].ev.tag = hist[k].ev.tag
    /\ NestSum(k + 1, m) = -1
    /\ \A j \in (k + 1)..(m - 1) : NestSum(k + 1, j) >= 0

\* C6: text is captured into a region only while its counter is above 0, and
\* a region is active from its qualifying start tag until that tag's matching
\* end tag: after the matching end tag the counter is 0, also when the
\* region holds start tags that have no end tag (void elements).
C6_ActiveUntilMatchingEnd ==
    \A r \in Regions :
        /\ \A i \in 1..Len(hist) :
               (hist[i].ev.kind = "data" /\ hist[i][r] = 0) =>
                   hist[i][PartsOf(r)] = Before(i)[PartsOf(r)]
        /\ \A k \in 1..Len(hist) : \A m \in 1..Len(hist) :
               (Activates(k, r) /\ MatchingEnd(k, m)) =>
                   /\ \A j \in k..(m - 1) : hist[j][r] > 0
                   /\ hist[m][r] = 0

\* the title region was activated and has closed before the i-th event
TitleClosedBefore(i) ==
    \E k \in 1..(i - 1) : \E m \in (k + 1)..(i - 1) :
        Activates(k, "title_depth") /\ hist[m].title_depth = 0

\* C25: the title region is activated by the first <h1> start tag of the
\* document only: once the first title region has closed, a later start tag
\* does not activate the title counter again and later text is not added to
\* the title parts.
C25_FirstH1Only ==
    \A i \in 1..Len(hist) :
        TitleClosedBefore(i) =>
            /\ ~Activates(i, "title_depth")
            /\ hist[i].title_parts = Before(i).title_parts

(***************************************************************************)
(* Claims about the normalisation of a matched posting.                    *)
(***************************************************************************)
\* the members of the value at place i of the posting
MembersIn(i) ==
    { j \in (i + 1)..Len(posting_doc) :
          /\ posting_doc[j].d = posting_doc[i].d + 1
          /\ \A n \in (i + 1)..(j - 1) : posting_doc[n].d > posting_doc[i].d }

\* the text of the member key of the map at place i, empty when the member
\* is missing
TextIn(i, key) ==
    LET hits == {j \in MembersIn(i) : posting_doc[j].key = key /\ posting_doc[j].k = "str"}
    IN  IF hits = {} THEN <<>> ELSE posting_doc[Greatest(hits)].v

\* the place of the member key of the posting, 0 when it is missing
PlaceOf(key) ==
    LET hits == {j \in MembersIn(1) : posting_doc[j].key = key}
    IN  IF hits = {} THEN 0 ELSE Greatest(hits)

\* the pieces that stand for tags in a description
TagPieces == {"<p>", "</p>", "<br>", "<ul>", "</ul>", "<li>", "</li>"}

\* the words of a text: its pieces that are neither white space nor tags
WordPieces(text) == SelectSeq(text, LAMBDA p : ~IsSpace(p) /\ p \notin TagPieces)

\* C11: the record of a matched posting has its title from the title field
\* or, when that is empty, the name field; its company from the name of
\* hiringOrganization when that is a map, from the first item that is a map
\* with a non-empty name when it is a list, empty otherwise; its description
\* from the description field without its tags; each without the white
\* space around it.
C11_NormalizedFields ==
    ~normalized.none =>
        LET org == PlaceOf("hiringOrganization")
            named == {j \in MembersIn(org) :
                         posting_doc[j].k = "map" /\ TextIn(j, "name") # <<>>}
        IN  /\ normalized.title =
                   Strip(IF TextIn(1, "title") # <<>> THEN TextIn(1, "title")
                         ELSE TextIn(1, "name"))
            /\ normalized.company =
                   Strip(IF org = 0 THEN <<>>
                         ELSE IF posting_doc[org].k = "map" THEN TextIn(org, "name")
                         ELSE IF posting_doc[org].k = "list" /\ named # {}
                              THEN TextIn(Least(named), "name")
                         ELSE <<>>)
            /\ \A i \in 1..Len(normalized.description) :
                   normalized.description[i] \notin TagPieces
            /\ WordPieces(normalized.description) = WordPieces(TextIn(1, "description"))
            /\ normalized.description = Strip(normalized.description)
            /\ TextIn(1, "description") = <<"<p>", "Z", "</p>">> =>
                   normalized.description = <<"Z">>

C11_Witness ==
    /\ posting_doc = << Tok(0, "", "map", <<>>),
                        Tok(1, "@type", "str", <<"JobPosting">>),
                        Tok(1, "title", "str", <<"X">>),
                        Tok(1, "hiringOrganization", "map", <<>>),
                        Tok(2, "name", "str", <<"Y">>),
                        Tok(1, "description", "str", <<"<p>", "Z", "</p>">>) >>
    /\ normalized = JobRecord(<<"X">>, <<"Y">>, <<"Z">>)

(***************************************************************************)
(* Claims about the naming engine.                                         *)
(***************************************************************************)
\* C3: the slug make_folder_name returns is at most 80 characters long, has
\* no two consecutive separators and neither starts nor ends with one.
C3_SlugWellFormed ==
    folder_name # None =>
        /\ Len(folder_name) <= SlugMaxLen
        /\ \A i \in 1..(Len(folder_name) - 1) :
               ~(folder_name[i] = "-" /\ folder_name[i + 1] = "-")
        /\ folder_name # <<>> => (Head(folder_name) # "-"
                                   /\ folder_name[Len(folder_name)] # "-")

\* the candidate of _trim_slug: the combined parts with runs of separators
\* collapsed and the separators at both ends stripped
Candidate == StripChars(CollapseRuns(combined, {"-"}, "-"), {"-"})

\* the longest prefix of whole tokens of text that is at most n long
WholeTokenPrefix(text, n) ==
    LET parts == SplitOn(text, {"-"})
        fits == {k \in 1..Len(parts) : Len(JoinWith(SubSeq(parts, 1, k), <<"-">>)) <= n}
    IN  JoinWith(SubSeq(parts, 1, Greatest(fits)), <<"-">>)

\* C12: the company part is made of the words from the first word that is
\* no noise up to the next noise word, at most 6 of them; when every word is
\* noise it is made of the first 4 words.
NoiseNames == { <<"W", "e", "b", "k", "i", "t">>, <<"C", "s", "s", "1", "2", "3">> }

C12_CompanyFilter ==
    (folder_name # None /\ job_title = <<>>) =>
        LET words == WordsOf(job_company, {" "})
            good == {i \in 1..Len(words) : words[i] \notin NoiseNames}
            first == Least(good)
            stops == {j \in (first + 1)..Len(words) : words[j] \in NoiseNames}
            last == IF stops = {} THEN Len(words) ELSE Least(stops) - 1
            upto == IF last - first + 1 > 6 THEN first + 5 ELSE last
        IN  company_part =
                IF good = {}
                THEN JoinWith(SubSeq(words, 1, IF Len(words) > 4 THEN 4 ELSE Len(words)),
                              <<"-">>)
                ELSE JoinWith(SubSeq(words, first, upto), <<"-">>)

C12_Witness ==
    /\ folder_name # None
    /\ WordsOf(job_company, {" "}) =
           << <<"A", "c", "m", "e">>, <<"W", "e", "b", "k", "i", "t">>,
              <<"A", "c", "m", "e">> >>
    /\ company_part = <<"A", "c", "m", "e">>

\* C13: a candidate longer than 80 characters is trimmed to its longest
\* prefix of whole tokens that fits in 80 characters; a first token that is
\* longer than 80 characters is cut to its first 80 characters.
C13_TrimKeepsWholeTokens ==
    (folder_name # None /\ platform = "posix") =>
        folder_name =
            IF Len(Candidate) <= 80 THEN Candidate
            ELSE IF Len(Head(SplitOn(Candidate, {"-"}))) > 80
                 THEN RStripChars(Prefix(Candidate, 80), {"-"})
            ELSE WholeTokenPrefix(Candidate, 80)

\* C14: the slug before trimming is title part, "-", company part when both
\* parts are non-empty, the non-empty part when one is, and "Job-Posting"
\* when none is.
C14_PartsCombined ==
    folder_name # None =>
        /\ combined =
               IF title_part = <<>> /\ company_part = <<>> THEN JobPostingSlug
               ELSE JoinWith(NonEmptyOnes(<<title_part, company_part>>), <<"-">>)
        /\ folder_name =
               _trim_slug(_normalize_slug_for_platform(_trim_slug(combined), platform))

C14_Witness ==
    /\ folder_name # None
    /\ folder_name = <<"C", "o", "n", "-", "A", "c", "m", "e">>
    /\ title_part = <<"C", "o", "n">>
    /\ company_part = <<"A", "c", "m", "e">>
    /\ combined = folder_name

\* C15: the title part is the words of the title in their order, a word
\* longer than 4 characters cut to its first 4 characters, joined by "-".
C15_TitleAbbreviated ==
    (folder_name # None /\ job_company = <<>>) =>
        LET words == WordsOf(job_title, TitleSeparators)
            parts == WordsOf(title_part, {"-"})
        IN  /\ Len(parts) = Len(words)
            /\ title_part = JoinWith(parts, <<"-">>)
            /\ \A i \in 1..Len(parts) :
                   /\ Len(parts[i]) <= 4
                   /\ parts[i] = IF Len(words[i]) > 4 THEN SubSeq(words[i], 1, 4)
                                 ELSE words[i]

C15_Witness ==
    /\ folder_name # None
    /\ job_title = <<"S", "e", "n", "i", "o", "r", " ",
                     "S", "o", "f", "t", "w", "a", "r", "e", " ",
                     "E", "n", "g", "i", "n", "e", "e", "r">>
    /\ title_part = <<"S", "e", "n", "i", "-", "S", "o", "f", "t", "-",
                      "E", "n", "g", "i">>

\* the part of a slug before its first ".", in upper case
UpperBase(slug) == UpperStr(Head(SplitOn(slug, {"."})))

\* C16: on "nt" the slug returned never has a reserved device name as its
\* upper-cased base: a slug that has one gets the suffix "-job"; on other
\* platforms it is returned without the suffix.
C16_ReservedNameSuffixed ==
    folder_name # None =>
        LET slug == _trim_slug(combined)
        IN  /\ platform = "nt" => UpperBase(folder_name) \notin _WINDOWS_RESERVED_NAMES
            /\ (platform = "nt" /\ UpperBase(slug) \in _WINDOWS_RESERVED_NAMES) =>
                   folder_name = slug \o <<"-", "j", "o", "b">>
            /\ (platform # "nt" \/ UpperBase(slug) \notin _WINDOWS_RESERVED_NAMES) =>
                   folder_name = slug

C16_Witness ==
    /\ platform = "nt"
    /\ job_title = <<"C", "o", "n">>
    /\ job_company = <<>>
    /\ folder_name # None
    /\ folder_name = <<"C", "o", "n", "-", "j", "o", "b">>

\* C17: make_folder_name returns a non-empty slug for every title and
\* company, and "Job-Posting" when neither holds an alphanumeric character.
C17_NeverEmpty ==
    folder_name # None =>
        /\ folder_name # <<>>
        /\ (\A i \in 1..Len(job_title) : ~IsAlnumCh(job_title[i])) /\
           (\A i \in 1..Len(job_company) : ~IsAlnumCh(job_company[i]))
               => folder_name = <<"J", "o", "b", "-", "P", "o", "s", "t", "i", "n", "g">>

C17_Witness ==
    /\ job_title = <<"-">>
    /\ job_company = <<" ", "-">>
    /\ folder_name # None
    /\ folder_name = <<"J", "o", "b", "-", "P", "o", "s", "t", "i", "n", "g">>

(***************************************************************************)
(* Claims about the cascade of scrape_job.                                 *)
(***************************************************************************)
\* the blocks of the page, as a set
BlocksOf(pg) == {pg[i] : i \in 1..Len(pg)}

\* the record of each stage run alone on the fetched markup
Stage1 == parse_indeed_job(html_text)
Stage2 == IF IsLinkedin(url) THEN parse_linkedin_job(html_text) ELSE NoJob
Stage3 == parse_indeed_html(html_text)

\* the record of the first stage, in the order 1, 2, 3, that yields one
FirstYield ==
    IF ~Stage1.none THEN Stage1 ELSE IF ~Stage2.none THEN Stage2 ELSE Stage3

\* C1: the stages run in the order JSON-LD, LinkedIn parser (LinkedIn URLs
\* only), generic extractor; the record held after each stage, and the one
\* returned, is the unchanged record of the first stage that yields one, so
\* a page with a valid JSON-LD JobPosting and site markup gives the JSON-LD
\* record.
C1_FirstStageWins ==
    /\ pc = "linkedin" => job = Stage1
    /\ pc = "generic" => job = (IF ~Stage1.none THEN Stage1 ELSE Stage2)
    /\ pc \in {"check", "returned", "raised"} => job = FirstYield
    /\ pc = "returned" => ~job.none /\ error = None
    /\ (pc = "returned" /\ page # <<>> /\ Head(page) = "ld_posting") =>
           job = JobRecord(<<"X">>, <<"Y">>, <<"Z">>)

C1_Witness ==
    /\ pc = "returned"
    /\ page = <<"ld_posting", "og_hiring">>
    /\ IsLinkedin(url)
    /\ ~parse_linkedin_job(html_text).none
    /\ ~parse_indeed_html(html_text).none
    /\ job = JobRecord(<<"X">>, <<"Y">>, <<"Z">>)

\* C2: every record scrape_job returns has a non-empty title, company or
\* description; when no stage yields such a record scrape_job raises.
C2_ReturnedRecordUsable ==
    pc = "returned" =>
        job.title # <<>> \/ job.company # <<>> \/ job.description # <<>>

\* the markup holds the phrase, in any letter case
HasPhrase(phrase) == Lower(phrase) \in LowerHtml(html_text)

\* C7 as claimed: markup that holds "verify you are a human" and no JSON-LD
\* JobPosting ends in the blocked-by-site error, whatever else it holds.
C7_BlockedWhateverElse ==
    (/\ pc \in {"returned", "raised"}
     /\ \E i \in 1..Len(html_text) : html_text[i].data = <<"verify you are a human">>
     /\ Stage1.none)
        => pc = "raised" /\ error = "blocked"

\* C7 amended: markup that holds "verify you are a human" from which no
\* stage yields a record ends in the blocked-by-site error, never in the
\* generic no-data error; when a stage yields a record from the other markup
\* of the page, that record is returned.
C7_BlockedWhenNoRecord ==
    (pc \in {"returned", "raised"} /\ HasPhrase("verify you are a human")) =>
        /\ FirstYield.none => pc = "raised" /\ error = "blocked"
        /\ ~FirstYield.none => pc = "returned" /\ job = FirstYield /\ error = None

C7_Witness ==
    /\ pc = "raised"
    /\ error = "blocked"
    /\ "t_verify" \in BlocksOf(page)
    /\ "og_desc_blank" \in BlocksOf(page)
    /\ \E i \in 1..Len(html_text) : html_text[i].data = <<"verify you are a human">>

\* the auth-wall phrases of _is_linkedin_auth_wall
AuthWallPhrases ==
    { "sign in to view", "join now to see", "authwall", "sign in or join",
      "login-form", "\"isLoggedIn\":false" }

\* C8: the error raised when every stage is exhausted is the blocked-by-site
\* error if the markup holds "captcha" or "verify you are a human" in any
\* letter case, otherwise the authentication-required error if the URL is a
\* LinkedIn URL and an auth-wall phrase is present, otherwise the generic
\* no-data error; it is raised only when no stage yields a record.
C8_ErrorByPriority ==
    /\ pc = "raised" =>
           /\ FirstYield.none
           /\ error =
                  (IF HasPhrase("captcha") \/ HasPhrase("verify you are a human")
                   THEN "blocked"
                   ELSE IF IsLinkedin(url) /\ \E ph \in AuthWallPhrases : HasPhrase(ph)
                        THEN "auth"
                   ELSE "nodata")
    /\ pc # "raised" => error = None

\* the page without its script blocks that are not valid JSON
Sound(pg) == SelectSeq(pg, LAMBDA b : b # "ld_broken")

\* C9: a script block that is not valid JSON is skipped: the JSON-LD stage
\* gives the record it gives on the page without that block, so a valid
\* JobPosting in a later script block is found, and when there is none the
\* later stages run and no error is raised before they have.
C9_MalformedScriptSkipped ==
    "ld_broken" \in BlocksOf(page) =>
        /\ pc = "linkedin" =>
               job = parse_indeed_job(Markup(Sound(page))) /\ error = None
        /\ (pc \in {"check", "returned", "raised"}
            /\ parse_indeed_job(Markup(Sound(page))).none) =>
               job = (IF ~Stage2.none THEN Stage2 ELSE Stage3)
        /\ pc = "raised" => Stage2.none /\ Stage3.none

C9_Witness ==
    /\ pc = "returned"
    /\ page = <<"ld_broken", "ld_posting">>
    /\ job = JobRecord(<<"X">>, <<"Y">>, <<"Z">>)

(***************************************************************************)
(* Claims about fetch_html.                                                *)
(***************************************************************************)
\* the HTTP attempts made so far, in order
Gets == SelectSeq(f_trace, LAMBDA e : e.ev = "get")

FetchEnded == f_pc \in {"returned", "raised"}

\* what holds of the attempts of fetch_html at every moment
FetchOrder ==
    /\ Len(Gets) <= 2
    /\ \A n \in 1..Len(Gets) : Gets[n].i = n - 1
    /\ \A k \in 1..Len(f_trace) :
           /\ (f_trace[k].ev = "get" /\ f_trace[k].i > 0) =>
                  k > 1 /\ f_trace[k - 1].ev = "sleep"
           /\ (f_trace[k].ev = "get" /\ f_trace[k].i = 0) => k = 1
           /\ f_trace[k].ev = "sleep" =>
                  k < Len(f_trace) /\ f_trace[k + 1].ev = "get" /\ f_trace[k + 1].i > 0
           /\ (f_trace[k].ev = "get" /\ f_trace[k].got = "ok") =>
                  k = Len(f_trace) /\ f_pc = "returned" /\ f_result = "body"
           /\ (f_trace[k].ev = "get" /\ f_trace[k].got \in {"404", "500"}) =>
                  k = Len(f_trace) /\ f_pc \in {"after", "raised"}
           /\ (f_trace[k].ev = "get" /\ f_trace[k].got \in {"403", "429", "999"}
               /\ f_trace[k].i < 1) =>
                  /\ f_pc \notin {"after", "returned"} \/ k < Len(f_trace)
                  /\ FetchEnded => k < Len(f_trace)
    /\ (f_pc = "returned" /\ ~target.local) =>
           Gets # <<>> /\ Gets[Len(Gets)].got = "ok"
    /\ f_pc = "raised" => f_result # None /\ f_result # "body"
    /\ (f_pc = "raised" /\ Gets # <<>>) => Gets[Len(Gets)].got # "ok"

\* C19: fetch_html tries the header profiles in order, each at most once,
\* sleeps before every attempt but the first, returns the body of the first
\* attempt that succeeds, makes no attempt after an HTTP error with a status
\* outside 403, 429, 999, goes on to the next profile after one with such a
\* status, and always ends with a result or an error.
C19_BoundedRetry == []FetchOrder /\ <>FetchEnded

C19_Witness ==
    /\ f_pc = "returned"
    /\ f_result = "body"
    /\ f_trace = << [ev |-> "get", i |-> 0, got |-> "403"],
                    [ev |-> "sleep", i |-> 1, got |-> None],
                    [ev |-> "get", i |-> 1, got |-> "ok"] >>

\* C26: an attempt of fetch_html that fails with an exception that is not
\* an HTTPError is the last attempt: the exception reaches the caller as it
\* is, also after an earlier attempt was blocked, no further header profile
\* is tried and no blocked-by-site message takes its place.
C26_OtherFailurePropagates ==
    \A k \in 1..Len(f_trace) :
        (f_trace[k].ev = "get" /\ f_trace[k].got = "URLError") =>
            /\ k = Len(f_trace)
            /\ f_pc = "raised"
            /\ f_result = "URLError"

C26_Witness ==
    /\ f_pc = "raised"
    /\ target.site = "indeed"
    /\ last_error = "403"
    /\ f_trace = << [ev |-> "get", i |-> 0, got |-> "403"],
                    [ev |-> "sleep", i |-> 1, got |-> None],
                    [ev |-> "get", i |-> 1, got |-> "URLError"] >>

(***************************************************************************)
(* Claims about the GUI.                                                   *)
(***************************************************************************)
\* the workers that have not run the last statement of wrapper()
InFlight == {w \in 1..Len(workers) : workers[w].pc # "done"}

\* the scheduled callbacks that re-enable the Run button
PendingIdle == {n \in 1..Len(after_queue) : after_queue[n].fn = "_set_busy"}

OneWorker ==
    /\ Cardinality(InFlight) <= 1
    /\ InFlight # {} => app.run_btn = "disabled" /\ PendingIdle = {}
    /\ app.run_btn = "disabled" => Cardinality(InFlight) + Cardinality(PendingIdle) = 1
    /\ app.run_btn = "normal" => InFlight = {} /\ PendingIdle = {}

\* a worker starts only from an enabled button, which the same step disables
StartsDisable ==
    Len(workers') > Len(workers) =>
        /\ app.run_btn = "normal"
        /\ app'.run_btn = "disabled"
        /\ InFlight = {}

\* the button is enabled again only by the callback of a finished worker
OnlyCallbackEnables ==
    (app.run_btn = "disabled" /\ app'.run_btn = "normal") =>
        /\ after_queue # <<>>
        /\ Head(after_queue).fn = "_set_busy"
        /\ after_queue' = Tail(after_queue)
        /\ InFlight = {}

\* C20: at most one background worker is in flight: the Run button is
\* disabled before the worker starts, no worker starts while it is disabled,
\* and only the callback a worker schedules as its last statement enables it
\* again.
C20_OneWorkerInFlight ==
    []OneWorker /\ [][StartsDisable /\ OnlyCallbackEnables]_vars

C20_Witness ==
    /\ Len(workers) = 2
    /\ workers[1].pc = "done"
    /\ workers[2].pc = "call"
    /\ app.run_btn = "disabled"
    /\ after_queue # <<>>

\* the status the run of worker w ends with
FinalStatus(w) ==
    IF workers[w].raised THEN "Failed"
    ELSE IF workers[w].mode = "tex" THEN "PDF ready" ELSE "Done"

\* a step that enables the Run button again
ReEnables == app.run_btn = "disabled" /\ app'.run_btn = "normal"

\* at the step that enables the Run button again the status is the final
\* one of the run and the error of a run that raised is in the log
ReEnabledFinal ==
    ReEnables =>
        /\ workers # <<>>
        /\ app'.status = FinalStatus(Len(workers))
        /\ app'.status # "Working"
        /\ workers[Len(workers)].raised =>
               \E n \in 1..Len(app'.log) : app'.log[n] = "error"

\* C27: every background run enables the Run button again, whether work()
\* returns or raises, and at the step that enables it the status is the final
\* one (Done or PDF ready after work() returned, Failed after it raised),
\* never Working, and the error of a run that raised has been logged.
C27_RunEndsReady ==
    /\ (app.run_btn = "disabled") ~> (app.run_btn = "normal")
    /\ [][ReEnabledFinal]_vars

C27_Witness ==
    /\ workers # <<>>
    /\ workers[Len(workers)].raised
    /\ workers[Len(workers)].pc = "done"
    /\ app.run_btn = "normal"
    /\ app.status = "Failed"
    /\ app.log = <<"accent", "error">>

\* the runs whose work() got past its calls without raising
Succeeded ==
    {w \in 1..Len(workers) :
        ~workers[w].raised /\ workers[w].pc \in {"log", "status", "open", "finally", "done"}}

OpenImpliesFolder ==
    app.open_folder_btn = "normal" =>
        /\ Succeeded # {}
        /\ app.last_folder = ToString(Greatest(Succeeded))

\* every press of the Run button, rejected or not, disables the Open Folder
\* button and clears _last_folder
RunClears ==
    runs' # runs => app'.open_folder_btn = "disabled" /\ app'.last_folder = None

\* the Open Folder button is enabled only by the callback that ends a
\* work() that did not raise
OnlyEndEnables ==
    (app.open_folder_btn = "disabled" /\ app'.open_folder_btn = "normal") =>
        /\ after_queue # <<>>
        /\ Head(after_queue).fn = "open_folder_btn"
        /\ workers # <<>>
        /\ ~workers[Len(workers)].raised
        /\ workers[Len(workers)].pc \in {"finally", "done"}

\* C28: every press of the Run button disables the Open Folder button and
\* clears _last_folder, the button is enabled only by the callback scheduled
\* at the end of a work() that did not raise, and whenever the button is
\* enabled _last_folder is the folder of the most recent successful run.
C28_OpenFolderValid ==
    []OpenImpliesFolder /\ [][RunClears /\ OnlyEndEnables]_vars

C28_Witness ==
    /\ Len(workers) = 2
    /\ workers[1].raised
    /\ app.open_folder_btn = "normal"
    /\ app.last_folder = "2"

(***************************************************************************)
(* Claims about the artifact files.                                        *)
(***************************************************************************)
\* the step is a call of the function op of file_ops
Calls(op) == fo_ops' = fo_ops + 1 /\ fo_last'.op = op

\* copy_template_file returns None and creates nothing without a template,
\* leaves a target that exists as it is and returns its path, and a second
\* call changes nothing and returns what the first returned
CopyIdempotent ==
    Calls("copy_template_file") =>
        LET target_name == fo_last'.name
        IN  /\ ~templates.resume.there =>
                   disk' = disk /\ fo_last'.result = None
            /\ (templates.resume.there /\ disk.exists /\ disk.files[target_name].there) =>
                   disk' = disk /\ fo_last'.result = target_name
            /\ fo_last'.result # "FileNotFoundError" =>
                   /\ copy_template_file(disk', templates.resume, target_name) = disk'
                   /\ CopyResult(templates.resume, target_name) = fo_last'.result

\* a write that returns leaves the file with the text of this write,
\* whatever the file held, and the other files as they were
WritesOverwrite ==
    /\ (Calls("write_description") /\ fo_last'.result = fo_last'.name) =>
           /\ disk'.files[fo_last'.name] =
                  HoldsFile(DescriptionPayload(fo_last'.description, fo_last'.source_url))
           /\ \A n \in FileNames \ {fo_last'.name} : disk'.files[n] = disk.files[n]
    /\ (Calls("write_prompt_file") /\ fo_last'.result = fo_last'.name) =>
           /\ disk'.files[fo_last'.name] =
                  HoldsFile(PromptPayload(fo_last'.prompt_text, fo_last'.description))
           /\ \A n \in FileNames \ {fo_last'.name} : disk'.files[n] = disk.files[n]

\* ensure_job_folder raises nothing, and changes nothing when the folder
\* exists
EnsureIdempotent ==
    Calls("ensure_job_folder") =>
        /\ fo_last'.result = "folder"
        /\ disk'.exists
        /\ disk'.files = disk.files
        /\ disk.exists => disk' = disk

\* C23: copy_template_file leaves a target file that exists unchanged and
\* returns its path, returns None and creates nothing when the template does
\* not exist, and called twice does what it does called once;
\* write_description and write_prompt_file overwrite the target, so after
\* any sequence of writes the file holds the text of the last one;
\* ensure_job_folder on a folder that exists is no error and changes nothing.
C23_EmitterIdempotent ==
    [][CopyIdempotent /\ WritesOverwrite /\ EnsureIdempotent]_vars

\* copy_template_file has returned the path of a target that held, and
\* still holds, a text that is not the template's
C23_Witness ==
    /\ fo_last.op = "copy_template_file"
    /\ fo_last.result = "prompt.txt"
    /\ templates.resume.there
    /\ disk.files["prompt.txt"].there
    /\ disk.files["prompt.txt"] # templates.resume
    /\ fo_ops = 3

(***************************************************************************)
(* Claims about process_job.                                               *)
(***************************************************************************)
\* C21: process_job raises the validation error for a record whose title
\* and company are both empty after stripping, and only for such a record:
\* a record with a title or a company goes on to naming and to the folder.
C21_ValidationOnlyBothMissing ==
    pj_pc # "start" =>
        (pj_result = "ValueError" <=>
             (Strip(job_data.title) = <<>> /\ Strip(job_data.company) = <<>>))

\* the artifact files of the job folder
Artifacts ==
    { DescriptionName(pj_locals.folder_name), "prompt.txt", "prompt-cover.txt",
      "resume-template.tex" }

\* C22: when process_job ends with an error, none of the artifact files
\* has been written by it or all of them have, and a validation error comes
\* before the folder is named and before any file is written.
C22_NoPartialFolder ==
    pj_pc = "raised" =>
        /\ pj_locals.written = {} \/ Artifacts \subseteq pj_locals.written
        /\ pj_result = "ValueError" =>
               pj_locals.written = {} /\ pj_locals.folder_name = <<>>

(***************************************************************************)
(* Claims about _compile_resume.                                           *)
(***************************************************************************)
\* the places of c_trace at which subprocess.run was called
RunsAt == {k \in 1..Len(c_trace) : c_trace[k] # "cleanup"}

\* every call of subprocess.run has a clean-up right before it and, once the
\* finally clause has run, right after it
CleanupAround ==
    \A k \in RunsAt :
        /\ k > 1 /\ c_trace[k - 1] = "cleanup"
        /\ c_pc \in {"after", "ended"} => k < Len(c_trace) /\ c_trace[k + 1] = "cleanup"

\* how a call of _compile_resume that has ended has ended
CompileOutcome ==
    c_pc = "ended" =>
        /\ InvalidTex(tex) => c_result.kind = "ValueError" /\ c_trace = <<>>
        /\ ~InvalidTex(tex) =>
               /\ c_trace # <<>> /\ c_trace[1] = "cleanup"
               /\ (aux \cap AuxExtensions) \subseteq tex.stuck
        /\ (\E k \in RunsAt : c_trace[k] = "exit 1") =>
               c_result = [kind |-> "RuntimeError", output |-> "pdflatex failed: stdout"]
        /\ (~InvalidTex(tex) /\ tex.toolchain = "missing") =>
               c_result = [kind |-> "RuntimeError", output |-> "pdflatex not found"]
        /\ c_result.kind = "returned" <=> (\E k \in RunsAt : c_trace[k] = "exit 0")
        /\ c_result.kind = "returned" => c_result.output = "Resume.pdf"

\* C24: both variants of _compile_resume remove the auxiliary files before
\* the compiler is invoked and again after the invocation, whether it exits
\* with zero, exits with non-zero or cannot be started; a non-zero exit
\* raises an error that carries the captured output, a missing toolchain
\* raises an error, the PDF path is returned only after a zero exit, and a
\* path that is not a .tex file is rejected before any file is removed.
C24_CleanupAroundCompile == CleanupAround /\ CompileOutcome

C24_Witness ==
    /\ c_pc = "ended"
    /\ c_trace = <<"cleanup", "exit 1", "cleanup">>
    /\ c_result.kind = "RuntimeError"
    /\ tex.stuck = {}
    /\ aux = {".pdf"}

(***************************************************************************)
(* Claims about the structured-data locator.                               *)
(***************************************************************************)
\* the members of the value at place i of the document
MembersOf(i) ==
    { j \in (i + 1)..Len(tokens) :
          /\ tokens[j].d = tokens[i].d + 1
          /\ \A n \in (i + 1)..(j - 1) : tokens[n].d > tokens[i].d }

\* the value at place i is a map whose @type is "JobPosting" or a list
\* that holds "JobPosting"
Matches(i) ==
    /\ tokens[i].k = "map"
    /\ \E j \in MembersOf(i) :
           /\ tokens[j].key = "@type"
           /\ \/ tokens[j].k = "str" /\ tokens[j].v = <<"JobPosting">>
              \/ /\ tokens[j].k = "list"
                 /\ \E n \in MembersOf(j) :
                        tokens[n].k = "str" /\ tokens[n].v = <<"JobPosting">>

\* C10: the locator returns the first matching map in document order (a
\* matching map before the maps inside it, a match of an earlier payload
\* before one of a later payload) and nothing when no map matches.
C10_FirstInDocumentOrder ==
    searched =>
        LET matching == {i \in 1..Len(tokens) : Matches(i)}
        IN  IF matching = {} THEN located = NoneNode
            ELSE located = Build(tokens, Least(matching))

C10_Witness ==
    /\ searched
    /\ located.k = "map"
    /\ located.at > 1
    /\ \E i \in 1..Len(tokens) :
           /\ Matches(i)
           /\ i > located.at
           /\ tokens[i].d > tokens[located.at].d
           /\ \A n \in (located.at + 1)..i : tokens[n].d > tokens[located.at].d

====
